---- MODULE Spec2Model ----
(***************************************************************************)
(* Model of the agent ranking engine of Naki-Agent                         *)
(* (src/agents/tools/cookie.py, src/agents/utils/util.py) and of its       *)
(* technical signal engine, which exists in two copies                     *)
(* (src/analysis/ta.py and src/agents/tools/ta.py).                        *)
(*                                                                         *)
(* Numbers.  Python floats are modelled as exact rationals <<n, d>> in     *)
(* lowest terms with d > 0.  NaN == <<0, 0>> stands for the outcome of an  *)
(* operation on which Python raises (ZeroDivisionError, ValueError); it    *)
(* propagates through arithmetic.  None == <<>> is Python's None.          *)
(*                                                                         *)
(* Logarithm.  math.log / np.log is modelled by Ln, the base-2 logarithm   *)
(* interpolated linearly between consecutive powers of two.  Ln is        *)
(* strictly increasing, Ln(1) = 0 and it is exact on powers of two, so it  *)
(* keeps the three things the normalisers use of a logarithm: the order of *)
(* two values, their equality and the sign.  The normalised quotient       *)
(* (x - min) / (max - min) does not depend on the base of the logarithm.   *)
(***************************************************************************)
EXTENDS Integers, Sequences, FiniteSets, TLC

\* ---------------------------------------------------------------- bounds
MaxAgents == 3
MaxK == 2
MaxPop == 3
MaxTail == 4
MaxBars == 5
MaxRunAgents == 2
MaxClock == 12
MaxOrders == 2

\* ------------------------------------------------------------- constants
MarketCapThreshold == 100000
MinFourhCandles == 200
MinOnehCandles == 26
SmaFastPeriod == 50
SmaSlowPeriod == 200
RsiOversold == 30
RsiOverbought == 70
LongThreshold == 2
ShortThreshold == -2
MissingResistance == 999999
MissingSupport == 0
DefaultLookback == 50
RecentHours == 6
SolanaChain == -2

\* ------------------------------------------------------------ arithmetic
None == <<>>
NaN == <<0, 0>>

Abs(i) == IF i < 0 THEN -i ELSE i

RECURSIVE Gcd(_, _)
Gcd(a, b) == IF b = 0 THEN a ELSE Gcd(b, a % b)

\* the rational n/d in lowest terms, d > 0 (d = 0: the operation raised)
Norm(n, d) ==
    IF d = 0 THEN NaN
    ELSE IF d = 1 THEN <<n, 1>>
    ELSE LET g == Gcd(Abs(n), Abs(d))
             s == IF d < 0 THEN -1 ELSE 1
         IN <<s * (n \div g), s * (d \div g)>>

R(i) == <<i, 1>>
Zero == R(0)
One == R(1)

IsNaN(a) == a = NaN

RatAdd(a, b) ==
    IF a[2] = 1 /\ b[2] = 1 THEN <<a[1] + b[1], 1>>
    ELSE IF IsNaN(a) \/ IsNaN(b) THEN NaN
    ELSE IF a[2] = b[2] THEN Norm(a[1] + b[1], a[2])
    ELSE LET g == Gcd(a[2], b[2])
         IN Norm(a[1] * (b[2] \div g) + b[1] * (a[2] \div g), (a[2] \div g) * b[2])

RatNeg(a) == IF IsNaN(a) THEN NaN ELSE <<-a[1], a[2]>>

RatSub(a, b) == RatAdd(a, RatNeg(b))

RatMul(a, b) ==
    IF IsNaN(a) \/ IsNaN(b) THEN NaN
    ELSE LET g1 == Gcd(Abs(a[1]), b[2])
             g2 == Gcd(Abs(b[1]), a[2])
             h1 == IF g1 = 0 THEN 1 ELSE g1
             h2 == IF g2 = 0 THEN 1 ELSE g2
         IN Norm((a[1] \div h1) * (b[1] \div h2), (a[2] \div h2) * (b[2] \div h1))

\* a / b; Python raises ZeroDivisionError on b = 0
RatDiv(a, b) ==
    IF IsNaN(a) \/ IsNaN(b) \/ b[1] = 0 THEN NaN
    ELSE RatMul(a, Norm(b[2], b[1]))

\* comparisons; every comparison with NaN is false
RatLt(a, b) ==
    /\ ~IsNaN(a) /\ ~IsNaN(b)
    /\ IF a[2] = b[2] THEN a[1] < b[1]
       ELSE LET g == Gcd(a[2], b[2]) IN a[1] * (b[2] \div g) < b[1] * (a[2] \div g)
RatLe(a, b) == ~IsNaN(a) /\ ~IsNaN(b) /\ ~RatLt(b, a)
RatGt(a, b) == RatLt(b, a)
RatGe(a, b) == RatLe(b, a)

\* Python's min(a, b): b if b < a else a
RatMin(a, b) == IF RatLt(b, a) THEN b ELSE a

\* ------------------------------------------------------------- sequences
Min2(i, j) == IF i < j THEN i ELSE j

\* a list whose elements are computed once, when it is built
List(s) == SubSeq(s, 1, Len(s))

RECURSIVE SumSeq(_)
SumSeq(s) == IF s = <<>> THEN Zero ELSE RatAdd(Head(s), SumSeq(Tail(s)))

\* insertion of x into the ascending sequence s, after the elements equal to it
RECURSIVE InsertAsc(_, _)
InsertAsc(x, s) ==
    IF s = <<>> THEN <<x>>
    ELSE IF RatLt(x, Head(s)) THEN <<x>> \o s
    ELSE <<Head(s)>> \o InsertAsc(x, Tail(s))

RECURSIVE SortAsc(_)
SortAsc(s) == IF s = <<>> THEN <<>> ELSE InsertAsc(s[Len(s)], SortAsc(SubSeq(s, 1, Len(s) - 1)))

\* arr.min() and min(list); both raise ValueError on an empty sequence
RECURSIVE ArrMin(_)
ArrMin(s) ==
    IF s = <<>> THEN NaN
    ELSE IF Len(s) = 1 THEN s[1]
    ELSE RatMin(ArrMin(Tail(s)), Head(s))

\* np.percentile(arr, 99): linear interpolation between the two order
\* statistics around the virtual index 0.99 * (n - 1)
Percentile99(s) ==
    IF s = <<>> THEN NaN
    ELSE LET n == Len(s)
             a == SortAsc(s)
             pos == 99 * (n - 1)
             lo == pos \div 100
             hi == Min2(lo + 1, n - 1)
         IN RatAdd(a[lo + 1], RatMul(Norm(pos % 100, 100), RatSub(a[hi + 1], a[lo + 1])))

\* ------------------------------------------------------------- logarithm
\* the largest e >= 0 with q * 2^e <= p, as the pair <<e, q * 2^e>> (p >= q > 0)
RECURSIVE PowBelow(_, _, _)
PowBelow(p, q, e) == IF 2 * q <= p THEN PowBelow(p, 2 * q, e + 1) ELSE <<e, q>>

\* the smallest f >= 0 with p * 2^f >= q, as the pair <<f, p * 2^f>> (0 < p)
RECURSIVE PowAbove(_, _, _)
PowAbove(p, q, f) == IF p < q THEN PowAbove(2 * p, q, f + 1) ELSE <<f, p>>

\* math.log(x): raises ValueError for x <= 0
Ln(x) ==
    IF IsNaN(x) \/ x[1] <= 0 THEN NaN
    ELSE IF x[1] >= x[2]
         THEN LET b == PowBelow(x[1], x[2], 0)
              IN RatAdd(R(b[1]), Norm(x[1] - b[2], b[2]))
         ELSE LET b == PowAbove(x[1], x[2], 0)
              IN RatAdd(R(-b[1]), Norm(b[2] - x[2], x[2]))

\* ------------------------------------------------- agents/utils/util.py
\* dict.get(key, default)
Get(agent, key, default) == IF key \in DOMAIN agent THEN agent[key] ELSE default

\* safe_ratio with the guard written value >= 0
safe_ratio_nonneg(agent, metric_key) ==
    LET value == Get(agent, metric_key, Zero)
    IN IF RatGe(value, Zero) THEN RatDiv(Get(agent, "marketCap", Zero), value) ELSE None

\* safe_ratio with an absent marketCap read as 1
safe_ratio_cap_one(agent, metric_key) ==
    LET value == Get(agent, metric_key, Zero)
    IN IF RatGt(value, Zero) THEN RatDiv(Get(agent, "marketCap", One), value) ELSE None

safe_ratio(agent, metric_key) ==
    LET value == Get(agent, metric_key, Zero)
    IN IF RatGt(value, Zero) THEN RatDiv(Get(agent, "marketCap", Zero), value) ELSE None

\* truth value of an Optional[float]: None and 0.0 are false
Truthy(x) == x # None /\ x # Zero

compute_ratio_score(avg_ratio, agent_metric, market_cap) ==
    IF ~(Truthy(avg_ratio) /\ RatGt(agent_metric, Zero) /\ RatGt(market_cap, Zero))
    THEN None
    ELSE LET agent_ratio == RatDiv(market_cap, agent_metric)
         IN IF RatLe(agent_ratio, Zero) THEN None ELSE RatDiv(avg_ratio, agent_ratio)

\* robust_normalize without the clipping of the value to the 99th percentile
robust_normalize_noclip(value, values_list) ==
    LET min_val == ArrMin(values_list)
        max_val == Percentile99(values_list)
    IN IF IsNaN(min_val) THEN NaN
       ELSE IF max_val = min_val THEN Zero
       ELSE RatDiv(RatSub(value, min_val), RatSub(max_val, min_val))

\* robust_normalize without the test max_val == min_val
robust_normalize_noguard(value, values_list) ==
    LET min_val == ArrMin(values_list)
        max_val == Percentile99(values_list)
    IN IF IsNaN(min_val) THEN NaN
       ELSE LET clipped == RatMin(value, max_val)
            IN RatDiv(RatSub(clipped, min_val), RatSub(max_val, min_val))

robust_normalize(value, values_list) ==
    LET min_val == ArrMin(values_list)
        max_val == Percentile99(values_list)
    IN IF IsNaN(min_val) THEN NaN
       ELSE IF max_val = min_val THEN Zero
       ELSE LET clipped == RatMin(value, max_val)
            IN RatDiv(RatSub(clipped, min_val), RatSub(max_val, min_val))

IsPositive(v) == RatGt(v, Zero)

\* log_robust_normalize without the test max_val == min_val
log_robust_normalize_noguard(value, values_list) ==
    LET positive == SelectSeq(values_list, IsPositive)
        log_values == List([i \in 1..Len(positive) |-> Ln(positive[i])])
    IN IF log_values = <<>> THEN Zero
       ELSE LET log_value == IF RatGt(value, Zero) THEN Ln(value) ELSE Zero
                min_val == ArrMin(log_values)
                max_val == Percentile99(log_values)
                clipped == RatMin(log_value, max_val)
            IN RatDiv(RatSub(clipped, min_val), RatSub(max_val, min_val))

\* log_robust_normalize without the test of an empty log_values: min() of
\* an empty list raises
log_robust_normalize_noempty(value, values_list) ==
    LET positive == SelectSeq(values_list, IsPositive)
        log_values == List([i \in 1..Len(positive) |-> Ln(positive[i])])
    IN IF log_values = <<>> THEN NaN
       ELSE LET log_value == IF RatGt(value, Zero) THEN Ln(value) ELSE Zero
                min_val == ArrMin(log_values)
                max_val == Percentile99(log_values)
            IN IF max_val = min_val THEN Zero
               ELSE LET clipped == RatMin(log_value, max_val)
                    IN RatDiv(RatSub(clipped, min_val), RatSub(max_val, min_val))

\* log_robust_normalize without the clipping of the logarithm to the 99th
\* percentile
log_robust_normalize_noclip(value, values_list) ==
    LET positive == SelectSeq(values_list, IsPositive)
        log_values == List([i \in 1..Len(positive) |-> Ln(positive[i])])
    IN IF log_values = <<>> THEN Zero
       ELSE LET log_value == IF RatGt(value, Zero) THEN Ln(value) ELSE Zero
                min_val == ArrMin(log_values)
                max_val == Percentile99(log_values)
            IN IF max_val = min_val THEN Zero
               ELSE RatDiv(RatSub(log_value, min_val), RatSub(max_val, min_val))

log_robust_normalize(value, values_list) ==
    LET positive == SelectSeq(values_list, IsPositive)
        log_values == List([i \in 1..Len(positive) |-> Ln(positive[i])])
    IN IF log_values = <<>> THEN Zero
       ELSE LET log_value == IF RatGt(value, Zero) THEN Ln(value) ELSE Zero
                min_val == ArrMin(log_values)
                max_val == Percentile99(log_values)
            IN IF max_val = min_val THEN Zero
               ELSE LET clipped == RatMin(log_value, max_val)
                    IN RatDiv(RatSub(clipped, min_val), RatSub(max_val, min_val))

\* ------------------------------------------------ agents/tools/cookie.py
\* agent[key] = value
Attach(agent, key, value) == (key :> value) @@ agent

\* the fields the engine attaches to a record
DerivedFields ==
    {"ms_ratio_score", "sf_ratio_score", "hc_ratio_score", "score_delta",
     "pe_adjustment_score", "raw_final_score", "norm_mindshareDeltaPercent",
     "norm_volume24HoursDeltaPercent", "norm_ms_ratio_score", "norm_sf_ratio_score",
     "norm_hc_ratio_score", "finalScore"}

\* [agent for agent in agents if agent.get("marketCap", 0) > 100000]
\* the filter written marketCap >= 100000
PassesFilterInclusive(agent) == RatGe(Get(agent, "marketCap", Zero), R(MarketCapThreshold))

PassesFilter(agent) == RatGt(Get(agent, "marketCap", Zero), R(MarketCapThreshold))

FilterAgents(agents) == SelectSeq(agents, PassesFilter)

\* sum(ratios) / len(ratios) if ratios else None, over the ratios that are not None
\* the average without the test of an empty list of ratios
AverageRatioUnguarded(agents, metric_key) ==
    LET HasRatio(agent) == safe_ratio(agent, metric_key) # None
        kept == SelectSeq(agents, HasRatio)
        ratios == List([i \in 1..Len(kept) |-> safe_ratio(kept[i], metric_key)])
    IN RatDiv(SumSeq(ratios), R(Len(ratios)))

AverageRatio(agents, metric_key) ==
    LET HasRatio(agent) == safe_ratio(agent, metric_key) # None
        kept == SelectSeq(agents, HasRatio)
        ratios == List([i \in 1..Len(kept) |-> safe_ratio(kept[i], metric_key)])
    IN IF ratios = <<>> THEN None ELSE RatDiv(SumSeq(ratios), R(Len(ratios)))

compute_average_ratios(agents) ==
    <<AverageRatio(agents, "mindshare"),
      AverageRatio(agents, "smartFollowersCount"),
      AverageRatio(agents, "holdersCount")>>

\* x if x is not None else 0
OrZero(x) == IF x # None THEN x ELSE Zero

\* the body of the loop of _compute_raw_scores for one agent
RawScored(agent, avgs) ==
    LET delta_ms == Get(agent, "mindshareDeltaPercent", Zero)
        delta_vol == Get(agent, "volume24HoursDeltaPercent", Zero)
        score_delta == RatAdd(delta_ms, delta_vol)
        market_cap == Get(agent, "marketCap", Zero)
        ms_score == compute_ratio_score(avgs[1], Get(agent, "mindshare", Zero), market_cap)
        sf_score == compute_ratio_score(avgs[2], Get(agent, "smartFollowersCount", Zero), market_cap)
        hc_score == compute_ratio_score(avgs[3], Get(agent, "holdersCount", Zero), market_cap)
        IsScore(x) == x # None
        available_scores == SelectSeq(<<ms_score, sf_score, hc_score>>, IsScore)
        pe_adjustment_score ==
            IF available_scores # <<>>
            THEN RatDiv(SumSeq(available_scores), R(Len(available_scores)))
            ELSE Zero
    IN Attach(Attach(Attach(Attach(Attach(Attach(agent,
           "ms_ratio_score", OrZero(ms_score)),
           "sf_ratio_score", OrZero(sf_score)),
           "hc_ratio_score", OrZero(hc_score)),
           "score_delta", score_delta),
           "pe_adjustment_score", pe_adjustment_score),
           "raw_final_score", RatAdd(score_delta, pe_adjustment_score))

compute_raw_scores(agents, avgs) ==
    List([i \in 1..Len(agents) |-> RawScored(agents[i], avgs)])

\* [agent.get(key, default) for agent in agents]
Column(agents, key, default) ==
    List([i \in 1..Len(agents) |-> Get(agents[i], key, default)])

VolumeWeight == Norm(3, 10)
SfWeight == Norm(1, 2)
HcWeight == Norm(1, 5)
MarketCapScale == Norm(1, 5)

tech_score(norm_mindshare, norm_volume, norm_ms, norm_sf, norm_hc, norm_market_cap) ==
    RatDiv(
        RatAdd(RatAdd(RatAdd(RatAdd(RatAdd(norm_mindshare,
            RatMul(norm_volume, VolumeWeight)),
            norm_ms),
            RatMul(norm_sf, SfWeight)),
            RatMul(norm_hc, HcWeight)),
            norm_market_cap),
        R(3))

\* the body of the loop of _normalize_agent_scores for one agent
Normalized(agent, agents) ==
    LET mindshare_deltas == Column(agents, "mindshareDeltaPercent", Zero)
        volume_deltas == Column(agents, "volume24HoursDeltaPercent", Zero)
        ms_scores == Column(agents, "ms_ratio_score", Zero)
        sf_scores == Column(agents, "sf_ratio_score", Zero)
        hc_scores == Column(agents, "hc_ratio_score", Zero)
        market_caps_log == List([i \in 1..Len(agents) |-> Ln(Get(agents[i], "marketCap", One))])
        norm_mindshare == robust_normalize(Get(agent, "mindshareDeltaPercent", Zero), mindshare_deltas)
        norm_volume == robust_normalize(Get(agent, "volume24HoursDeltaPercent", Zero), volume_deltas)
        norm_ms == log_robust_normalize(Get(agent, "ms_ratio_score", Zero), ms_scores)
        norm_sf == log_robust_normalize(Get(agent, "sf_ratio_score", Zero), sf_scores)
        norm_hc == log_robust_normalize(Get(agent, "hc_ratio_score", Zero), hc_scores)
        agent_market_cap_log == Ln(Get(agent, "marketCap", One))
        norm_market_cap ==
            RatMul(robust_normalize(agent_market_cap_log, market_caps_log), MarketCapScale)
    IN Attach(Attach(Attach(Attach(Attach(Attach(agent,
           "norm_mindshareDeltaPercent", norm_mindshare),
           "norm_volume24HoursDeltaPercent", norm_volume),
           "norm_ms_ratio_score", norm_ms),
           "norm_sf_ratio_score", norm_sf),
           "norm_hc_ratio_score", norm_hc),
           "finalScore",
           tech_score(norm_mindshare, norm_volume, norm_ms, norm_sf, norm_hc, norm_market_cap))

normalize_agent_scores(agents) ==
    List([i \in 1..Len(agents) |-> Normalized(agents[i], agents)])

\* key=lambda x: x.get("finalScore", 0)
SortKey(agent) == Get(agent, "finalScore", Zero)

\* the insertion with <= for <: x overtakes the elements equal to it
RECURSIVE InsertDescUnstable(_, _)
InsertDescUnstable(x, s) ==
    IF s = <<>> THEN <<x>>
    ELSE IF RatLe(SortKey(Head(s)), SortKey(x)) THEN <<x>> \o s
    ELSE <<Head(s)>> \o InsertDescUnstable(x, Tail(s))

\* x goes before the first element whose key is smaller than its own
RECURSIVE InsertDesc(_, _)
InsertDesc(x, s) ==
    IF s = <<>> THEN <<x>>
    ELSE IF RatLt(SortKey(Head(s)), SortKey(x)) THEN <<x>> \o s
    ELSE <<Head(s)>> \o InsertDesc(x, Tail(s))

\* the sort without reverse=True: ascending
RECURSIVE InsertAscending(_, _)
InsertAscending(x, s) ==
    IF s = <<>> THEN <<x>>
    ELSE IF RatLt(SortKey(x), SortKey(Head(s))) THEN <<x>> \o s
    ELSE <<Head(s)>> \o InsertAscending(x, Tail(s))

RECURSIVE SortedAscending(_)
SortedAscending(s) ==
    IF s = <<>> THEN <<>>
    ELSE InsertAscending(s[Len(s)], SortedAscending(SubSeq(s, 1, Len(s) - 1)))

\* sorted(agents, key=..., reverse=True): stable, equal keys keep their order
RECURSIVE SortedDesc(_)
SortedDesc(s) ==
    IF s = <<>> THEN <<>>
    ELSE InsertDesc(s[Len(s)], SortedDesc(SubSeq(s, 1, Len(s) - 1)))

\* the slice written [:k + 1]
PrefixOffByOne(s, k) == SubSeq(s, 1, Min2(k + 1, Len(s)))

\* seq[:k] for k >= 0
Prefix(s, k) == SubSeq(s, 1, Min2(k, Len(s)))

\* lines 181-185 of get_top_agents: filter, averages, raw scores, normalisation
ScoredAgents(all_agents) ==
    LET agents == FilterAgents(all_agents)
        avgs == compute_average_ratios(agents)
    IN normalize_agent_scores(compute_raw_scores(agents, avgs))

\* an operation of the pass raised: some computed number is the error value
Raised(all_agents, scored) ==
    LET avgs == compute_average_ratios(FilterAgents(all_agents))
    IN \/ \E j \in 1..3 : avgs[j] = NaN
       \/ \E i \in 1..Len(scored) : \E f \in DerivedFields : scored[i][f] = NaN

\* ----------------------------------------------------- analysis/ta.py
\* The signal engine, TechnicalAnalysis.comprehensive_ta_analysis.  A candle
\* is a record [high, low, close] of rationals; a series is a sequence of
\* candles in ascending time.  The results of talib.RSI and talib.MACD on
\* the 1-hour closes are inputs of the model (rsi_1h, macd_hist); the text
\* of the reason list and the MACD value and signal line, which no decision
\* reads, are left out of the report.
Highs(series) == List([i \in 1..Len(series) |-> series[i].high])
Lows(series) == List([i \in 1..Len(series) |-> series[i].low])
Closes(series) == List([i \in 1..Len(series) |-> series[i].close])

\* list.sort(reverse=True) on numbers
RECURSIVE Reverse(_)
Reverse(s) == IF s = <<>> THEN <<>> ELSE Append(Reverse(Tail(s)), Head(s))
SortDesc(s) == Reverse(SortAsc(s))

\* s[:2]
Top2(s) == SubSeq(s, 1, Min2(2, Len(s)))

\* max(s[lo..hi]) and min(s[lo..hi]), taken by halves
RECURSIVE MaxRange(_, _, _)
MaxRange(s, lo, hi) ==
    IF lo = hi THEN s[lo]
    ELSE LET a == MaxRange(s, lo, (lo + hi) \div 2)
             b == MaxRange(s, (lo + hi) \div 2 + 1, hi)
         IN IF RatGt(b, a) THEN b ELSE a

RECURSIVE MinRange(_, _, _)
MinRange(s, lo, hi) ==
    IF lo = hi THEN s[lo]
    ELSE LET a == MinRange(s, lo, (lo + hi) \div 2)
             b == MinRange(s, (lo + hi) \div 2 + 1, hi)
         IN IF RatLt(b, a) THEN b ELSE a

\* max(s[-window:]) and min(s[-window:]) for window >= 1 and s not empty
WindowMax(s, window) == MaxRange(s, IF Len(s) > window THEN Len(s) - window + 1 ELSE 1, Len(s))
WindowMin(s, window) == MinRange(s, IF Len(s) > window THEN Len(s) - window + 1 ELSE 1, Len(s))

\* round(x, 2): the nearest multiple of 1/100, a tie going to the even one
Round2(x) ==
    IF IsNaN(x) THEN NaN
    ELSE LET whole == x[1] \div x[2]
             num == 100 * (x[1] - whole * x[2])
             q == 100 * whole + (num \div x[2])
             rem == num % x[2]
         IN IF 2 * rem < x[2] THEN Norm(q, 100)
            ELSE IF 2 * rem > x[2] THEN Norm(q + 1, 100)
            ELSE IF q % 2 = 0 THEN Norm(q, 100) ELSE Norm(q + 1, 100)

\* closes[lo] + ... + closes[hi], summed by halves
RECURSIVE SumRange(_, _, _)
SumRange(closes, lo, hi) ==
    IF lo > hi THEN Zero
    ELSE IF lo = hi THEN closes[lo]
    ELSE IF lo + 1 = hi THEN RatAdd(closes[lo], closes[hi])
    ELSE RatAdd(SumRange(closes, lo, (lo + hi) \div 2),
                SumRange(closes, (lo + hi) \div 2 + 1, hi))

\* talib.SMA(closes, timeperiod)[-1]: the mean of the last timeperiod closes
LastSma(closes, timeperiod) ==
    IF Len(closes) < timeperiod THEN NaN
    ELSE RatDiv(SumRange(closes, Len(closes) - timeperiod + 1, Len(closes)),
                R(timeperiod))

\* the scan started on the second bar of the window:
\* start_idx = max(1, len(highs) - window + 1)
SwingRangeInner(n, window) ==
    LET start_idx == IF n - window + 1 > 1 THEN n - window + 1 ELSE 1
        end_idx == n - 1
    IN List([k \in 1..(end_idx - start_idx) |-> start_idx + k])

\* the bar indices range(start_idx, end_idx) of the swing scan in time
\* order, as 1-based positions
SwingRange(n, window) ==
    LET start_idx == IF n - window > 1 THEN n - window ELSE 1
        end_idx == n - 1
    IN List([k \in 1..(end_idx - start_idx) |-> start_idx + k])

\* the bars of the window whose value is strictly above / below both neighbours
SwingHighBars(highs, window) ==
    SelectSeq(SwingRange(Len(highs), window),
              LAMBDA i : RatGt(highs[i], highs[i - 1]) /\ RatGt(highs[i], highs[i + 1]))

SwingLowBars(lows, window) ==
    SelectSeq(SwingRange(Len(lows), window),
              LAMBDA i : RatLt(lows[i], lows[i - 1]) /\ RatLt(lows[i], lows[i + 1]))

\* _find_swing_highs_lows: <<local_highs (descending), local_lows (ascending)>>
find_swing_highs_lows(highs, lows, window) ==
    LET hb == SwingHighBars(highs, window)
        lb == SwingLowBars(lows, window)
    IN << SortDesc(List([k \in 1..Len(hb) |-> highs[hb[k]]])),
          SortAsc(List([k \in 1..Len(lb) |-> lows[lb[k]]])) >>

\* the trend of _process_fourh_data: "bullish" only for sma50 > sma200
MidTrendInclusive(last_sma50, last_sma200) ==
    IF RatGe(last_sma50, last_sma200) THEN "bullish" ELSE "bearish"

MidTrend(last_sma50, last_sma200) ==
    IF RatGt(last_sma50, last_sma200) THEN "bullish" ELSE "bearish"

\* the three contributions to overall_score
TrendScore(mid_trend) == IF mid_trend = "bullish" THEN 1 ELSE -1

RsiScore(rsi_1h) ==
    IF RatLt(rsi_1h, R(RsiOversold)) THEN 1
    ELSE IF RatGt(rsi_1h, R(RsiOverbought)) THEN -1
    ELSE 0

MacdScore(macd_hist) == IF RatGt(macd_hist, Zero) THEN 1 ELSE -1

OverallScore(mid_trend, rsi_1h, macd_hist) ==
    0 + TrendScore(mid_trend) + RsiScore(rsi_1h) + MacdScore(macd_hist)

\* the recommendation with the thresholds written > and <
RecommendationStrict(overall_score) ==
    IF overall_score > LongThreshold THEN "LONG"
    ELSE IF overall_score < ShortThreshold THEN "SHORT"
    ELSE "NO_ACTION"

Recommendation(overall_score) ==
    IF overall_score >= LongThreshold THEN "LONG"
    ELSE IF overall_score <= ShortThreshold THEN "SHORT"
    ELSE "NO_ACTION"

\* truth value of a number or None
TruthyNumber(x) == x # None /\ x[1] # 0

NoTrade == [entry |-> None, stop_loss |-> None, take_profit |-> None]

\* the factors 0.98, 1.02, 0.8 and 1.2 of _suggest_trade
StopBelow == Norm(49, 50)
TargetAbove == Norm(51, 50)
WideStopBelow == Norm(4, 5)
WideStopAbove == Norm(6, 5)

\* x if x else 0.0
TruthyOrZero(x) == IF TruthyNumber(x) THEN x ELSE Zero

\* r1, r2, s1, s2 of _suggest_trade after the fallback
TradeLevels(local_highs, local_lows) ==
    [r1 |-> IF Len(local_highs) > 0 THEN local_highs[1] ELSE R(MissingResistance),
     r2 |-> IF Len(local_highs) > 1 THEN local_highs[2] ELSE R(MissingResistance),
     s1 |-> IF Len(local_lows) > 0 THEN local_lows[1] ELSE R(MissingSupport),
     s2 |-> IF Len(local_lows) > 1 THEN local_lows[2] ELSE R(MissingSupport)]

LongTrade(lv) ==
    LET entry == lv.s1
        stop_loss == IF TruthyNumber(lv.s2) THEN RatMul(lv.s2, StopBelow)
                     ELSE RatMul(entry, WideStopBelow)
        tp == IF RatGt(lv.r1, entry) THEN lv.r1 ELSE lv.r2
    IN [entry |-> entry, stop_loss |-> stop_loss,
        take_profit |-> IF TruthyNumber(tp) THEN tp ELSE RatMul(entry, TargetAbove)]

ShortTrade(lv) ==
    LET entry == lv.r1
        stop_loss == IF TruthyNumber(lv.r2) THEN RatMul(lv.r2, TargetAbove)
                     ELSE RatMul(entry, WideStopAbove)
        tp == IF RatLt(lv.s1, entry) THEN lv.s1 ELSE lv.s2
    IN [entry |-> entry, stop_loss |-> stop_loss,
        take_profit |-> IF TruthyNumber(tp) THEN tp ELSE RatMul(entry, StopBelow)]

\* _suggest_trade: the trade dict
suggest_trade(recommendation, local_highs, local_lows) ==
    IF local_highs = <<>> /\ local_lows = <<>> THEN NoTrade
    ELSE IF recommendation = "LONG" THEN LongTrade(TradeLevels(local_highs, local_lows))
    ELSE IF recommendation = "SHORT" THEN ShortTrade(TradeLevels(local_highs, local_lows))
    ELSE NoTrade

\* round(x, 2) if x else None
RoundedOrNone(x) == IF TruthyNumber(x) THEN Round2(x) ELSE None

RoundAll(s) == List([i \in 1..Len(s) |-> Round2(s[i])])

\* _build_report
build_report(recommendation, overall_score, sma_vals, rsi_1h, macd_hist, local_highs, local_lows, suggested_trade) ==
    LET top_highs == RoundAll(Top2(local_highs))
        top_lows == RoundAll(Top2(local_lows))
    IN [recommendation |-> IF top_highs = <<>> \/ top_lows = <<>>
                           THEN "NO_ACTION" ELSE recommendation,
        overall_score |-> overall_score,
        indicator_values |-> [sma50_4h |-> Round2(sma_vals.sma50_4h),
                              sma200_4h |-> Round2(sma_vals.sma200_4h),
                              rsi_1h |-> Round2(rsi_1h),
                              macd_hist_1h |-> Round2(macd_hist)],
        swing_levels |-> [local_highs |-> top_highs, local_lows |-> top_lows],
        suggested_trade |-> [entry |-> RoundedOrNone(suggested_trade.entry),
                             stop_loss |-> RoundedOrNone(suggested_trade.stop_loss),
                             take_profit |-> RoundedOrNone(suggested_trade.take_profit)]]

\* an exception is <<type, message>>; None: no exception
ValueError(message) == <<"ValueError", message>>
FourhMessage == "Not enough 4-hour data to compute SMA200 for mid-term trend."
OnehMessage == "Not enough 1-hour data to compute MACD(12,26)."

\* json.dumps({"error": str(e)})
ErrorDocument(e) == [error |-> e[2]]

\* the values a call computed on its way (None: the call did not get there)
NoTrace ==
    [mid_trend |-> None, sma_vals |-> None, local_highs |-> None, local_lows |-> None,
     recommendation |-> None, levels |-> None, suggested_trade |-> None]

\* _process_fourh_data past its length test: the trend, the two averages
\* and the swing levels
process_fourh_data(closes, highs, lows, lookback_for_swing) ==
    LET last_sma50 == TruthyOrZero(LastSma(closes, SmaFastPeriod))
        last_sma200 == TruthyOrZero(LastSma(closes, SmaSlowPeriod))
        swings == find_swing_highs_lows(highs, lows, lookback_for_swing)
    IN [mid_trend |-> MidTrend(last_sma50, last_sma200),
        sma_vals |-> [sma50_4h |-> last_sma50, sma200_4h |-> last_sma200],
        local_highs |-> swings[1],
        local_lows |-> swings[2]]

\* steps (3) to (5) of comprehensive_ta_analysis, from what
\* _process_fourh_data and _process_oneh_data returned
ScoreTradeReport(fourh_out, rsi_1h, macd_hist) ==
    LET overall_score == OverallScore(fourh_out.mid_trend, rsi_1h, macd_hist)
        recommendation == Recommendation(overall_score)
        suggested_trade == suggest_trade(recommendation, fourh_out.local_highs,
                                         fourh_out.local_lows)
    IN [raised |-> None,
        result |-> build_report(recommendation, overall_score, fourh_out.sma_vals,
                                rsi_1h, macd_hist, fourh_out.local_highs,
                                fourh_out.local_lows, suggested_trade),
        trace |-> [mid_trend |-> fourh_out.mid_trend,
                   sma_vals |-> fourh_out.sma_vals,
                   local_highs |-> fourh_out.local_highs,
                   local_lows |-> fourh_out.local_lows,
                   recommendation |-> recommendation,
                   levels |-> IF fourh_out.local_highs = <<>> /\ fourh_out.local_lows = <<>>
                              THEN None
                              ELSE TradeLevels(fourh_out.local_highs, fourh_out.local_lows),
                   suggested_trade |-> suggested_trade]]

\* the body of the try statement of comprehensive_ta_analysis on the
\* 4-hour series fourh, a 1-hour series of oneh_len closes with the
\* indicator values rsi_1h and macd_hist, and the lookback:
\* [raised |-> the exception that ends it, result |-> what it returns,
\*  trace |-> what it computed]
TryAnalysis(fourh, oneh_len, rsi_1h, macd_hist, lookback_for_swing) ==
    IF Len(fourh) < MinFourhCandles
    THEN [raised |-> ValueError(FourhMessage), result |-> None, trace |-> NoTrace]
    ELSE IF oneh_len < MinOnehCandles
    THEN [raised |-> ValueError(OnehMessage), result |-> None, trace |-> NoTrace]
    ELSE ScoreTradeReport(process_fourh_data(Closes(fourh), Highs(fourh), Lows(fourh),
                                             lookback_for_swing),
                          rsi_1h, macd_hist)

\* except Exception as e: return json.dumps({"error": str(e)})
ExceptException(body) ==
    IF body.raised # None
    THEN [raised |-> None, result |-> ErrorDocument(body.raised), trace |-> body.trace]
    ELSE body

comprehensive_ta_analysis(fourh, oneh_len, rsi_1h, macd_hist, lookback_for_swing) ==
    ExceptException(TryAnalysis(fourh, oneh_len, rsi_1h, macd_hist, lookback_for_swing))

\* ------------------------------------------------- agents/tools/ta.py
\* The copy of the engine in TechnicalAnalysisToolkit.  Its trend, swing
\* scan, score and recommendation are the statements of analysis/ta.py;
\* the levels, the trade and the report are its own.

\* r1, r2, s1, s2 after the fallback to the window's extremes
ToolkitLevels(local_highs, local_lows, f_highs, f_lows, lookback_for_swing) ==
    [r1 |-> IF Len(local_highs) > 0 THEN local_highs[1]
            ELSE WindowMax(f_highs, lookback_for_swing),
     r2 |-> IF Len(local_highs) > 1 THEN local_highs[2]
            ELSE WindowMax(f_highs, lookback_for_swing),
     s1 |-> IF Len(local_lows) > 0 THEN local_lows[1]
            ELSE WindowMin(f_lows, lookback_for_swing),
     s2 |-> IF Len(local_lows) > 1 THEN local_lows[2]
            ELSE WindowMin(f_lows, lookback_for_swing)]

ToolkitLongTrade(lv) ==
    LET entry == IF TruthyNumber(lv.s1) THEN lv.s1 ELSE Zero
    IN [entry |-> entry,
        stop_loss |-> IF TruthyNumber(lv.s2) THEN RatMul(lv.s2, StopBelow)
                      ELSE RatMul(entry, StopBelow),
        take_profit |-> IF TruthyNumber(lv.r1) /\ RatGt(lv.r1, entry) THEN lv.r1
                        ELSE IF TruthyNumber(lv.r2) THEN lv.r2
                        ELSE RatMul(entry, TargetAbove)]

ToolkitShortTrade(lv) ==
    LET entry == IF TruthyNumber(lv.r1) THEN lv.r1 ELSE R(MissingResistance)
    IN [entry |-> entry,
        stop_loss |-> IF TruthyNumber(lv.r2) THEN RatMul(lv.r2, TargetAbove)
                      ELSE RatMul(entry, TargetAbove),
        take_profit |-> IF TruthyNumber(lv.s1) /\ RatLt(lv.s1, entry) THEN lv.s1
                        ELSE IF TruthyNumber(lv.s2) THEN lv.s2
                        ELSE RatMul(entry, StopBelow)]

ToolkitTrade(recommendation, lv) ==
    IF recommendation = "LONG" THEN ToolkitLongTrade(lv)
    ELSE IF recommendation = "SHORT" THEN ToolkitShortTrade(lv)
    ELSE NoTrade

\* the body of the try statement of
\* TechnicalAnalysisToolkit.comprehensive_ta_analysis; the result is the
\* document that json.dumps writes
ToolkitTryAnalysis(fourh, oneh_len, rsi_1h, macd_hist, lookback_for_swing) ==
    IF Len(fourh) < MinFourhCandles
    THEN [raised |-> ValueError(FourhMessage), result |-> None, trace |-> NoTrace]
    ELSE IF oneh_len < MinOnehCandles
    THEN [raised |-> ValueError(OnehMessage), result |-> None, trace |-> NoTrace]
    ELSE LET f_closes == Closes(fourh)
             f_highs == Highs(fourh)
             f_lows == Lows(fourh)
             last_sma50_4h == LastSma(f_closes, SmaFastPeriod)
             last_sma200_4h == LastSma(f_closes, SmaSlowPeriod)
             mid_trend == MidTrend(last_sma50_4h, last_sma200_4h)
             swings == find_swing_highs_lows(f_highs, f_lows, lookback_for_swing)
             lv == ToolkitLevels(swings[1], swings[2], f_highs, f_lows, lookback_for_swing)
             overall_score == OverallScore(mid_trend, rsi_1h, macd_hist)
             recommendation == Recommendation(overall_score)
             suggested_trade == ToolkitTrade(recommendation, lv)
         IN [raised |-> None,
             result |->
                [recommendation |-> recommendation,
                 overall_score |-> overall_score,
                 indicator_values |-> [sma50_4h |-> Round2(last_sma50_4h),
                                       sma200_4h |-> Round2(last_sma200_4h),
                                       rsi_1h |-> Round2(rsi_1h),
                                       macd_hist_1h |-> Round2(macd_hist)],
                 swing_levels |-> [local_highs |-> RoundAll(Top2(swings[1])),
                                   local_lows |-> RoundAll(Top2(swings[2]))],
                 suggested_trade |-> suggested_trade],
             trace |-> [mid_trend |-> mid_trend,
                        sma_vals |-> [sma50_4h |-> last_sma50_4h,
                                      sma200_4h |-> last_sma200_4h],
                        local_highs |-> swings[1], local_lows |-> swings[2],
                        recommendation |-> recommendation,
                        levels |-> lv,
                        suggested_trade |-> suggested_trade]]

toolkit_comprehensive_ta_analysis(fourh, oneh_len, rsi_1h, macd_hist, lookback_for_swing) ==
    ExceptException(ToolkitTryAnalysis(fourh, oneh_len, rsi_1h, macd_hist,
                                       lookback_for_swing))

\* ------------------------------------------------------------- trade.py
\* run_trade_pipeline and check_take_profit.  The collections tweet_history
\* and orders are lists of documents in insertion order; the time is
\* counted in hours.  What the services outside the program answer (the
\* token search, the signal engine, the language model, the messenger, the
\* wallet and the swap router) is the record env of one loop iteration.

\* the contractAddress of the first contract with chain == -2, else ""
RECURSIVE ContractAddress(_)
ContractAddress(token_contracts) ==
    IF token_contracts = <<>> THEN ""
    ELSE IF Head(token_contracts).chain = SolanaChain THEN Head(token_contracts).contractAddress
    ELSE ContractAddress(Tail(token_contracts))

\* has_recent_tweet with the cutoff written $gt
has_recent_tweet_strict(history, contract_address, now) ==
    \E i \in 1..Len(history) :
        /\ history[i].contractAddress = contract_address
        /\ history[i].tweetedAt > now - RecentHours

has_recent_tweet(history, contract_address, now) ==
    \E i \in 1..Len(history) :
        /\ history[i].contractAddress = contract_address
        /\ history[i].tweetedAt >= now - RecentHours

\* the document record_tweet_in_db inserts
TweetRecord(contract_address, now, tweet_text) ==
    [contractAddress |-> contract_address, tweetedAt |-> now, tweetText |-> tweet_text]

\* abs(entry_price - token_price) / token_price > 0.2
PriceDeviates(entry_price, token_price) ==
    LET diff == RatSub(entry_price, token_price)
    IN RatGt(RatDiv(IF diff[1] < 0 THEN RatNeg(diff) ELSE diff, token_price), Norm(1, 5))

\* no exception, and the transaction of a swap that returned none
NoError == ""
NoTransaction == ""

\* what one iteration of the loop leaves behind: the tweet recorded, the
\* tweet sent, the buy swap executed, the order inserted (None: none) and
\* the exception the except clause caught
Iteration(tweeted, sent, bought, inserted, caught) ==
    [tweeted |-> tweeted, sent |-> sent, bought |-> bought, inserted |-> inserted, caught |-> caught]

\* the LONG branch, after the tweet was recorded and sent
BuyLong(contract_address, report, entry_price, tweet, env) ==
    IF report.suggested_trade.take_profit = None \/ report.suggested_trade.stop_loss = None
    THEN Iteration(tweet, tweet, None, None, "TypeError")
    ELSE IF env.fail = "balance" THEN Iteration(tweet, tweet, None, None, "Exception")
    ELSE IF env.balance <= 0 THEN Iteration(tweet, tweet, None, None, NoError)
    ELSE IF env.mint = "AttributeError" THEN Iteration(tweet, tweet, None, None, "AttributeError")
    ELSE IF env.fail = "swap" THEN Iteration(tweet, tweet, None, None, "Exception")
    ELSE IF env.trade_result = NoTransaction THEN Iteration(tweet, tweet, None, None, NoError)
    ELSE Iteration(tweet, tweet,
                   [contractAddress |-> contract_address,
                    transactionHash |-> env.trade_result,
                    entry_price |-> entry_price,
                    take_profit |-> report.suggested_trade.take_profit,
                    stop_loss |-> report.suggested_trade.stop_loss],
                   None, "NameError")

\* the tweet of a LONG or SHORT report: summary, text, record, send
TweetSignal(contract_address, report, token_info, now, env) ==
    IF report.suggested_trade.entry = None THEN Iteration(None, None, None, None, "TypeError")
    ELSE LET entry_price == report.suggested_trade.entry
             token_price == IF "priceUsd" \in DOMAIN token_info THEN token_info.priceUsd ELSE Zero
             tweet == TweetRecord(contract_address, now, report.recommendation)
         IN IF token_price = Zero THEN Iteration(None, None, None, None, "ZeroDivisionError")
            ELSE IF PriceDeviates(entry_price, token_price) THEN Iteration(None, None, None, None, NoError)
            ELSE IF env.fail = "summary" THEN Iteration(None, None, None, None, "Exception")
            ELSE IF env.fail = "send" THEN Iteration(tweet, None, None, None, "Exception")
            ELSE IF report.recommendation = "LONG"
                 THEN BuyLong(contract_address, report, entry_price, tweet, env)
                 ELSE Iteration(tweet, tweet, None, None, NoError)

\* the body of the loop of run_trade_pipeline for one agent
ProcessedAgent(agent, history, now, env) ==
    LET contract_address ==
            ContractAddress(IF "contracts" \in DOMAIN agent THEN agent.contracts ELSE <<>>)
    IN IF contract_address = "" THEN Iteration(None, None, None, None, NoError)
       ELSE IF has_recent_tweet(history, contract_address, now) THEN Iteration(None, None, None, None, NoError)
       ELSE IF env.token_info.type = "str" THEN Iteration(None, None, None, None, "TypeError")
       ELSE IF env.analysis_report.type = "str"
            THEN Iteration(None, None, None, None, "AttributeError")
       ELSE IF env.analysis_report.recommendation \in {"LONG", "SHORT"}
            THEN TweetSignal(contract_address, env.analysis_report, env.token_info, now, env)
       ELSE Iteration(None, None, None, None, NoError)

\* one iteration of the loop of check_take_profit for the order:
\* [trade_result |-> what the sell swap returned ("": no transaction, or
\*  no swap), raised |-> the exception that leaves check_take_profit]
CheckedOrder(order, env) ==
    IF env.token_info.type = "str"
    THEN [trade_result |-> NoTransaction, raised |-> "AttributeError"]
    ELSE LET current_price ==
                 IF "priceUsd" \in DOMAIN env.token_info THEN env.token_info.priceUsd ELSE Zero
         IN IF RatGe(current_price, order.take_profit) \/ RatLe(current_price, order.stop_loss)
            THEN IF env.mint = "AttributeError"
                 THEN [trade_result |-> NoTransaction, raised |-> "AttributeError"]
                 ELSE IF env.fail = "swap"
                 THEN [trade_result |-> NoTransaction, raised |-> "Exception"]
                 ELSE [trade_result |-> env.trade_result, raised |-> NoError]
            ELSE [trade_result |-> NoTransaction, raised |-> NoError]

\* ---------------------------------------------------------------- inputs
\* records as the agent API returns them; a key that is not in the domain
\* is a field the API left out.  The first three are dropped by the filter
\* (no marketCap, marketCap on the threshold, negative marketCap).  Market
\* caps above the threshold are 102400 * 2^j and the deltas are in -1..1,
\* which keeps every exact quotient of a pass within the integers of TLC.
AgentPool ==
    { [mindshare |-> R(2), mindshareDeltaPercent |-> R(1)],
      [marketCap |-> R(MarketCapThreshold), mindshare |-> R(1), mindshareDeltaPercent |-> R(1),
       volume24HoursDeltaPercent |-> R(1), smartFollowersCount |-> R(1), holdersCount |-> R(1)],
      [marketCap |-> R(-204800), mindshare |-> R(4), mindshareDeltaPercent |-> R(1),
       volume24HoursDeltaPercent |-> R(-1), smartFollowersCount |-> R(8), holdersCount |-> R(8)],
      [marketCap |-> R(204800)],
      [marketCap |-> R(204800), mindshare |-> R(1), mindshareDeltaPercent |-> R(1),
       volume24HoursDeltaPercent |-> R(0), smartFollowersCount |-> R(2), holdersCount |-> R(4)],
      [marketCap |-> R(409600), mindshare |-> R(1), mindshareDeltaPercent |-> R(1),
       volume24HoursDeltaPercent |-> R(0), smartFollowersCount |-> R(0), holdersCount |-> R(-1)],
      [marketCap |-> R(409600), mindshare |-> R(4), mindshareDeltaPercent |-> R(-1),
       volume24HoursDeltaPercent |-> R(1), smartFollowersCount |-> R(2), holdersCount |-> R(4)],
      [marketCap |-> R(819200), mindshare |-> R(2), mindshareDeltaPercent |-> R(0),
       volume24HoursDeltaPercent |-> R(-1), smartFollowersCount |-> R(1)],
      [marketCap |-> R(102400), mindshare |-> R(0), volume24HoursDeltaPercent |-> R(1)] }

\* the list get_all_agents returns for the records f; agentName identifies
\* the record
Fetched(f) == List([i \in 1..Len(f) |-> Attach(f[i], "agentName", i)])

\* the values and populations the normalisers are applied to
NormValues == {R(-2), R(0), Norm(1, 2), R(1), R(2), R(3), R(4)}

\* the records and keys safe_ratio is applied to: marketCap and mindshare
\* are each left out, negative, zero or positive; holdersCount is always
\* left out
RatioValues == {R(-4), R(0), R(2), R(8)}
RatioAgents == UNION { [D -> RatioValues] : D \in SUBSET {"marketCap", "mindshare"} }
RatioKeys == {"mindshare", "holdersCount"}

\* the arguments compute_ratio_score is applied to
AvgRatios == {None, R(-2), R(0), Norm(1, 2), R(3)}
AgentMetrics == {R(-1), R(0), R(2)}
MarketCaps == {R(-4), R(0), R(4), R(8)}

\* candles of the 4-hour series.  FlatCandle repeats through the older part
\* of a series; the last MaxTail candles are drawn from CandlePool: a wide
\* candle (a high above and a low below the flat one), a candle with only
\* a higher high, and a candle of zeros, as the price API returns for hours
\* without trades.
FlatCandle == [high |-> R(10), low |-> R(8), close |-> R(9)]
CandlePool ==
    { FlatCandle,
      [high |-> R(12), low |-> R(6), close |-> R(11)],
      [high |-> R(11), low |-> R(8), close |-> R(10)],
      [high |-> R(0), low |-> R(0), close |-> R(0)] }

\* the 4-hour series of n candles that ends with the candles tail
FourhSeries(n, tail) ==
    List([i \in 1..n |-> IF i > n - Len(tail) THEN tail[i - (n - Len(tail))] ELSE FlatCandle])

FourhLengths == {MinFourhCandles - 1, MinFourhCandles}
OnehLengths == {MinOnehCandles - 1, MinOnehCandles}
Lookbacks == {3, DefaultLookback}
RsiValues == {R(25), R(RsiOversold), R(50), R(RsiOverbought), R(75)}
MacdHistValues == {R(-1), R(0), R(1)}

\* the bars (high, low) and the windows the swing scan is applied to on its
\* own: series of 0 to MaxBars bars, windows shorter than, as long as and
\* longer than the series
SwingBarPool ==
    { [high |-> R(1), low |-> R(1)],
      [high |-> R(5), low |-> R(0)],
      [high |-> R(2), low |-> R(2)],
      [high |-> R(8), low |-> R(-1)],
      [high |-> R(3), low |-> R(3)] }
SwingWindows == 1..(MaxBars + 1)

\* the agents get_top_agents hands to the pipeline: two with the contract
\* A on chain -2 (one of them after a contract on another chain), one with
\* the contract B on chain -2, one without contracts
PipelineAgents ==
    { [agentName |-> "a1", contracts |-> <<[chain |-> SolanaChain, contractAddress |-> "A"]>>],
      [agentName |-> "a2", contracts |-> <<[chain |-> 1, contractAddress |-> "X"],
                                            [chain |-> SolanaChain, contractAddress |-> "A"]>>],
      [agentName |-> "a3", contracts |-> <<[chain |-> SolanaChain, contractAddress |-> "B"]>>],
      [agentName |-> "a4"] }

\* what search_by_address returns: the pair it found with its price, the
\* empty dict (no pair of that address) or, after an exception, a string
TokenInfos ==
    { [type |-> "str"], [type |-> "dict"],
      [type |-> "dict", priceUsd |-> R(5)],
      [type |-> "dict", priceUsd |-> R(10)],
      [type |-> "dict", priceUsd |-> R(12)] }

\* what TechnicalAnalysis.comprehensive_ta_analysis returns: the error
\* string, or a report (a zero level is reported as None)
AnalysisReports ==
    { [type |-> "str"],
      [type |-> "dict", recommendation |-> "NO_ACTION", suggested_trade |-> NoTrade],
      [type |-> "dict", recommendation |-> "LONG",
       suggested_trade |-> [entry |-> R(10), stop_loss |-> Norm(49, 5), take_profit |-> R(12)]],
      [type |-> "dict", recommendation |-> "LONG",
       suggested_trade |-> [entry |-> None, stop_loss |-> None, take_profit |-> R(12)]],
      [type |-> "dict", recommendation |-> "SHORT",
       suggested_trade |-> [entry |-> R(10), stop_loss |-> Norm(51, 5), take_profit |-> R(8)]] }

\* the answers of the services during one iteration of run_trade_pipeline.
\* mint is the outcome of jupiter_toolkit.get_token_address: JupiterTools
\* as it is in tools/jupitertool.py has no such method and the call raises
\* AttributeError; a toolkit that has it returns a mint address.  The first
\* service that fails or answers badly decides what the iteration does, so
\* the services called after the analysis (fail: the call that raises)
\* deviate one at a time, in iterations that reach them: the token found
\* at the entry price, a report with an entry.
Envs ==
    { answers : answers \in
    { env \in [token_info : TokenInfos, analysis_report : AnalysisReports,
               fail : {"none", "summary", "send", "balance", "swap"},
               balance : {0, 1}, mint : {"AttributeError", "mint"},
               trade_result : {NoTransaction, "tx"}] :
        LET deviating == {f \in {"fail", "balance", "mint", "trade_result"} :
                              env[f] # [fail |-> "none", balance |-> 1, mint |-> "mint", trade_result |-> "tx"][f]}
            reached == /\ env.token_info = [type |-> "dict", priceUsd |-> R(10)]
                       /\ env.analysis_report.type = "dict"
                       /\ env.analysis_report.recommendation \in {"LONG", "SHORT"}
                       /\ env.analysis_report.suggested_trade.entry # None
        IN Cardinality(deviating) <= (IF reached THEN 1 ELSE 0) } }

\* the answers of the services during one iteration of check_take_profit
OrderEnvs ==
    [token_info : TokenInfos, fail : {"none", "swap"},
     mint : {"AttributeError", "mint"}, trade_result : {NoTransaction, "tx"}]

\* the orders the collection holds when check_take_profit starts
OrderPool ==
    { [contractAddress |-> "A", status |-> "HOLD", take_profit |-> R(12), stop_loss |-> R(9)],
      [contractAddress |-> "B", status |-> "HOLD", take_profit |-> R(11), stop_loss |-> R(0)],
      [contractAddress |-> "A", status |-> "CLOSED", take_profit |-> R(12), stop_loss |-> R(9)] }

\* ----------------------------------------------------------------- state
VARIABLES
    all_agents,       \* the records fetched by get_all_agents, as they are now
    top_k,            \* the argument k of the last call of get_top_agents
    top_agents,       \* the list that call returned
    rank_pc,          \* "idle", "returned" or "raised"
    norm_value,       \* the argument value of the normaliser
    norm_population,  \* the argument values_list of the normaliser
    norm_result,      \* what the normaliser returned
    norm_pc,          \* "idle", or the normaliser that returned
    ratio_agent,      \* the argument agent of safe_ratio
    ratio_metric_key, \* the argument metric_key of safe_ratio
    ratio_avg,        \* the argument avg_ratio of compute_ratio_score
    ratio_metric,     \* the argument agent_metric of compute_ratio_score
    ratio_cap,        \* the argument market_cap of compute_ratio_score
    ratio_result,     \* what the ratio function returned
    ratio_pc,         \* "idle", or the ratio function that returned
    ta_fourh_len,     \* the number of 4-hour candles the price API returned
    ta_fourh_tail,    \* the last MaxTail of them; the earlier ones are FlatCandle
    ta_oneh_len,      \* the number of 1-hour candles it returned
    ta_rsi,           \* the last value of talib.RSI on the 1-hour closes
    ta_macd_hist,     \* the last value of the histogram of talib.MACD
    ta_lookback,      \* the argument lookback_for_swing
    ta_trace,         \* the values the call computed on its way
    ta_result,        \* what the call returned (None: nothing)
    ta_raised,        \* the exception that left the call (None: it returned)
    ta_pc,            \* "idle", or the engine that returned
    swing_bars,       \* the bars whose highs and lows the swing scan is given
    swing_window,     \* the argument window of the swing scan
    swing_found,      \* <<local_highs, local_lows>> as the scan returned them
    swing_report,     \* the recommendation and the trade reported from these swings
    swing_pc,         \* "idle", "returned" (the scan), or the engine that reported
    clock,            \* datetime.utcnow(), in hours
    tweet_history,    \* the collection tweet_history
    telegram,         \* the tweets sent to the messenger
    buys,             \* the buy swaps that returned a transaction
    orders,           \* the collection orders
    sells,            \* the sell swaps that returned a transaction, by order
    observed,         \* the order check_take_profit looked at last and its token_info
    pending,          \* the agents, or the orders, the running loop has yet to visit
    trade_pc          \* "idle", "pipeline" or "check": the function that is running

vars == <<all_agents, top_k, top_agents, rank_pc,
          norm_value, norm_population, norm_result, norm_pc,
          ratio_agent, ratio_metric_key, ratio_avg, ratio_metric, ratio_cap,
          ratio_result, ratio_pc,
          ta_fourh_len, ta_fourh_tail, ta_oneh_len, ta_rsi, ta_macd_hist, ta_lookback,
          ta_trace, ta_result, ta_raised, ta_pc,
          swing_bars, swing_window, swing_found, swing_report, swing_pc,
          clock, tweet_history, telegram, buys, orders, sells, observed, pending, trade_pc>>

rankVars == <<all_agents, top_k, top_agents, rank_pc>>
normVars == <<norm_value, norm_population, norm_result, norm_pc>>
ratioVars == <<ratio_agent, ratio_metric_key, ratio_avg, ratio_metric, ratio_cap,
               ratio_result, ratio_pc>>
taVars == <<ta_fourh_len, ta_fourh_tail, ta_oneh_len, ta_rsi, ta_macd_hist, ta_lookback,
            ta_trace, ta_result, ta_raised, ta_pc>>

RankIdle == all_agents = <<>> /\ top_k = 0 /\ top_agents = <<>> /\ rank_pc = "idle"
NormIdle == norm_value = Zero /\ norm_population = <<>> /\ norm_result = None /\ norm_pc = "idle"
RatioIdle ==
    /\ ratio_agent = <<>> /\ ratio_metric_key = "" /\ ratio_avg = None
    /\ ratio_metric = Zero /\ ratio_cap = Zero /\ ratio_result = None /\ ratio_pc = "idle"
swingVars == <<swing_bars, swing_window, swing_found, swing_report, swing_pc>>

SwingIdle ==
    /\ swing_bars = <<>> /\ swing_window = 0 /\ swing_found = None
    /\ swing_report = None /\ swing_pc = "idle"

tradeVars == <<clock, tweet_history, telegram, buys, orders, sells, observed, pending, trade_pc>>

TradeIdle ==
    /\ clock = 0 /\ tweet_history = <<>> /\ telegram = <<>> /\ buys = <<>>
    /\ orders = <<>> /\ sells = <<>> /\ observed = None /\ pending = <<>>
    /\ trade_pc = "idle"

TaIdle ==
    /\ ta_fourh_len = 0 /\ ta_fourh_tail = <<>>
    /\ ta_oneh_len = 0 /\ ta_rsi = Zero /\ ta_macd_hist = Zero
    /\ ta_lookback = 0 /\ ta_trace = NoTrace /\ ta_result = None /\ ta_raised = None
    /\ ta_pc = "idle"

\* ------------------------------------------------- the ranking engine
InitRank ==
    /\ \E n \in 0..MaxAgents : \E f \in [1..n -> AgentPool] : all_agents = Fetched(f)
    /\ top_k = 0
    /\ top_agents = <<>>
    /\ rank_pc = "idle"
    /\ NormIdle
    /\ RatioIdle
    /\ TaIdle
    /\ SwingIdle
    /\ TradeIdle

\* the records after the call: the ones that passed the filter carry the
\* derived fields (the dicts are mutated in place), the others are untouched
Mutated(agents, scored) ==
    List([i \in 1..Len(agents) |->
            IF PassesFilter(agents[i])
            THEN scored[CHOOSE j \in 1..Len(scored) : scored[j]["agentName"] = i]
            ELSE agents[i]])

\* get_top_agents(interval, k), from the list get_all_agents returned
GetTopAgents ==
    /\ rank_pc = "idle"
    /\ IF all_agents = <<>>
       THEN /\ \E k \in 0..MaxK : top_k' = k
            /\ top_agents' = <<>>
            /\ rank_pc' = "returned"
            /\ UNCHANGED all_agents
       ELSE \E scored \in {ScoredAgents(all_agents)} :
            \E raised \in {Raised(all_agents, scored)} :
            \E agents_sorted \in {SortedDesc(scored)} :
            \E k \in 0..MaxK :
               /\ top_k' = k
               /\ all_agents' = Mutated(all_agents, scored)
               /\ top_agents' = IF raised THEN <<>> ELSE Prefix(agents_sorted, k)
               /\ rank_pc' = IF raised THEN "raised" ELSE "returned"
    /\ UNCHANGED <<normVars, ratioVars, taVars, swingVars, tradeVars>>

NextRank == GetTopAgents

SpecRank == InitRank /\ [][NextRank]_vars

\* ---------------------------------------------------- the normalisers
InitNorm ==
    /\ norm_value \in NormValues
    /\ \E n \in 0..MaxPop : \E f \in [1..n -> NormValues] : norm_population = List(f)
    /\ norm_result = None
    /\ norm_pc = "idle"
    /\ RankIdle
    /\ RatioIdle
    /\ TaIdle
    /\ SwingIdle
    /\ TradeIdle

RobustNormalize ==
    /\ norm_pc = "idle"
    /\ norm_result' = robust_normalize(norm_value, norm_population)
    /\ norm_pc' = "robust_normalize"
    /\ UNCHANGED <<norm_value, norm_population, rankVars, ratioVars, taVars, swingVars, tradeVars>>

LogRobustNormalize ==
    /\ norm_pc = "idle"
    /\ norm_result' = log_robust_normalize(norm_value, norm_population)
    /\ norm_pc' = "log_robust_normalize"
    /\ UNCHANGED <<norm_value, norm_population, rankVars, ratioVars, taVars, swingVars, tradeVars>>

NextNorm == RobustNormalize \/ LogRobustNormalize

SpecNorm == InitNorm /\ [][NextNorm]_vars

\* ------------------------------------------------- the ratio functions
InitRatio ==
    /\ ratio_agent \in RatioAgents
    /\ ratio_metric_key \in RatioKeys
    /\ ratio_avg \in AvgRatios
    /\ ratio_metric \in AgentMetrics
    /\ ratio_cap \in MarketCaps
    /\ ratio_result = None
    /\ ratio_pc = "idle"
    /\ RankIdle
    /\ NormIdle
    /\ TaIdle
    /\ SwingIdle
    /\ TradeIdle

SafeRatio ==
    /\ ratio_pc = "idle"
    /\ ratio_result' = safe_ratio(ratio_agent, ratio_metric_key)
    /\ ratio_pc' = "safe_ratio"
    /\ UNCHANGED <<ratio_agent, ratio_metric_key, ratio_avg, ratio_metric, ratio_cap,
                   rankVars, normVars, taVars, swingVars, tradeVars>>

ComputeRatioScore ==
    /\ ratio_pc = "idle"
    /\ ratio_result' = compute_ratio_score(ratio_avg, ratio_metric, ratio_cap)
    /\ ratio_pc' = "compute_ratio_score"
    /\ UNCHANGED <<ratio_agent, ratio_metric_key, ratio_avg, ratio_metric, ratio_cap,
                   rankVars, normVars, taVars, swingVars, tradeVars>>

NextRatio == SafeRatio \/ ComputeRatioScore

SpecRatio == InitRatio /\ [][NextRatio]_vars

\* --------------------------------------------------- the signal engine
InitTa ==
    /\ ta_fourh_len \in FourhLengths
    /\ \E tail \in [1..MaxTail -> CandlePool] : ta_fourh_tail = List(tail)
    /\ ta_oneh_len \in OnehLengths
    /\ ta_rsi \in RsiValues
    /\ ta_macd_hist \in MacdHistValues
    /\ ta_lookback \in Lookbacks
    /\ ta_trace = NoTrace
    /\ ta_result = None
    /\ ta_raised = None
    /\ ta_pc = "idle"
    /\ RankIdle
    /\ NormIdle
    /\ RatioIdle
    /\ SwingIdle
    /\ TradeIdle

\* TechnicalAnalysis.comprehensive_ta_analysis (analysis/ta.py)
Analyze ==
    /\ ta_pc = "idle"
    /\ \E out \in {comprehensive_ta_analysis(FourhSeries(ta_fourh_len, ta_fourh_tail),
                                              ta_oneh_len, ta_rsi, ta_macd_hist,
                                              ta_lookback)} :
           /\ ta_result' = out.result
           /\ ta_raised' = out.raised
           /\ ta_trace' = out.trace
    /\ ta_pc' = "analysis"
    /\ UNCHANGED <<ta_fourh_len, ta_fourh_tail, ta_oneh_len, ta_rsi, ta_macd_hist, ta_lookback,
                   rankVars, normVars, ratioVars, swingVars, tradeVars>>

\* TechnicalAnalysisToolkit.comprehensive_ta_analysis (agents/tools/ta.py)
ToolkitAnalyze ==
    /\ ta_pc = "idle"
    /\ \E out \in {toolkit_comprehensive_ta_analysis(FourhSeries(ta_fourh_len, ta_fourh_tail),
                                                      ta_oneh_len, ta_rsi, ta_macd_hist,
                                                      ta_lookback)} :
           /\ ta_result' = out.result
           /\ ta_raised' = out.raised
           /\ ta_trace' = out.trace
    /\ ta_pc' = "toolkit"
    /\ UNCHANGED <<ta_fourh_len, ta_fourh_tail, ta_oneh_len, ta_rsi, ta_macd_hist, ta_lookback,
                   rankVars, normVars, ratioVars, swingVars, tradeVars>>

NextTa == Analyze \/ ToolkitAnalyze

SpecTa == InitTa /\ [][NextTa]_vars

\* ------------------------------------------------------ the swing scan
InitSwing ==
    /\ \E n \in 0..MaxBars : \E f \in [1..n -> SwingBarPool] : swing_bars = List(f)
    /\ swing_window \in SwingWindows
    /\ swing_found = None
    /\ swing_report = None
    /\ swing_pc = "idle"
    /\ RankIdle
    /\ NormIdle
    /\ RatioIdle
    /\ TaIdle
    /\ TradeIdle

\* _find_swing_highs_lows(highs, lows, window)
FindSwingHighsLows ==
    /\ swing_pc = "idle"
    /\ swing_found' = find_swing_highs_lows(Highs(swing_bars), Lows(swing_bars), swing_window)
    /\ swing_pc' = "returned"
    /\ UNCHANGED <<swing_bars, swing_window, swing_report, rankVars, normVars, ratioVars, taVars, tradeVars>>

\* the recommendations step (4) hands to the trade levels
Recommendations == {"LONG", "SHORT", "NO_ACTION"}

\* steps (5) and (6) of TechnicalAnalysis.comprehensive_ta_analysis on the
\* swings found: _suggest_trade, then the recommendation and the trade as
\* _build_report writes them
SuggestTrade ==
    /\ swing_pc = "returned"
    /\ \E recommendation \in Recommendations :
       \E trade \in {suggest_trade(recommendation, swing_found[1], swing_found[2])} :
       \E report \in {build_report(recommendation, 0, [sma50_4h |-> Zero, sma200_4h |-> Zero], Zero, Zero, swing_found[1], swing_found[2], trade)} :
           swing_report' = [scored |-> recommendation,
                            recommendation |-> report.recommendation,
                            suggested_trade |-> report.suggested_trade]
    /\ swing_pc' = "analysis"
    /\ UNCHANGED <<swing_bars, swing_window, swing_found, rankVars, normVars, ratioVars, taVars, tradeVars>>

\* the levels and the trade of TechnicalAnalysisToolkit on the swings found
\* in the bars, which are the last bars of its 4-hour series
ToolkitSuggestTrade ==
    /\ swing_pc = "returned"
    /\ swing_bars # <<>>
    /\ \E recommendation \in Recommendations :
       \E lv \in {ToolkitLevels(swing_found[1], swing_found[2], Highs(swing_bars), Lows(swing_bars), swing_window)} :
           swing_report' = [scored |-> recommendation,
                            recommendation |-> recommendation,
                            suggested_trade |-> ToolkitTrade(recommendation, lv)]
    /\ swing_pc' = "toolkit"
    /\ UNCHANGED <<swing_bars, swing_window, swing_found, rankVars, normVars, ratioVars, taVars, tradeVars>>

NextSwing == FindSwingHighsLows \/ SuggestTrade \/ ToolkitSuggestTrade

SpecSwing == InitSwing /\ [][NextSwing]_vars

\* ------------------------------------------------ run_trade_pipeline
InitPipeline ==
    /\ TradeIdle
    /\ RankIdle
    /\ NormIdle
    /\ RatioIdle
    /\ TaIdle
    /\ SwingIdle

\* time passes: the clock is observed once per window of RecentHours
Tick ==
    /\ clock + RecentHours <= MaxClock
    /\ clock' = clock + RecentHours
    /\ UNCHANGED <<tweet_history, telegram, buys, orders, sells, observed, pending, trade_pc,
                   rankVars, normVars, ratioVars, taVars, swingVars>>

\* run_trade_pipeline up to its loop: the top agents are fetched
RunTradePipeline ==
    /\ trade_pc = "idle"
    /\ \E n \in 0..MaxRunAgents : \E fetched \in [1..n -> PipelineAgents] :
           /\ \A i, j \in 1..n : fetched[i] = fetched[j] => i = j
           /\ pending' = List(fetched)
           /\ trade_pc' = IF n = 0 THEN "idle" ELSE "pipeline"
    /\ UNCHANGED <<clock, tweet_history, telegram, buys, orders, sells, observed,
                   rankVars, normVars, ratioVars, taVars, swingVars>>

\* one iteration of its loop; after the last one the function returns
ProcessAgent ==
    /\ trade_pc = "pipeline"
    /\ \E env \in Envs :
       \E done \in {ProcessedAgent(Head(pending), tweet_history, clock, env)} :
           /\ tweet_history' = IF done.tweeted = None THEN tweet_history ELSE Append(tweet_history, done.tweeted)
           /\ telegram' = IF done.sent = None THEN telegram ELSE Append(telegram, done.sent)
           /\ buys' = IF done.bought = None THEN buys ELSE Append(buys, done.bought)
           /\ orders' = IF done.inserted = None THEN orders ELSE Append(orders, done.inserted)
    /\ pending' = Tail(pending)
    /\ trade_pc' = IF Tail(pending) = <<>> THEN "idle" ELSE "pipeline"
    /\ UNCHANGED <<clock, sells, observed, rankVars, normVars, ratioVars, taVars, swingVars>>

NextPipeline == Tick \/ RunTradePipeline \/ ProcessAgent

SpecPipeline == InitPipeline /\ [][NextPipeline]_vars

\* -------------------------------------------------- check_take_profit
InitOrders ==
    /\ \E n \in 0..MaxOrders : \E f \in [1..n -> OrderPool] : orders = List(f)
    /\ clock = 0 /\ tweet_history = <<>> /\ telegram = <<>> /\ buys = <<>>
    /\ sells = <<>> /\ observed = None /\ pending = <<>>
    /\ trade_pc = "idle"
    /\ RankIdle
    /\ NormIdle
    /\ RatioIdle
    /\ TaIdle
    /\ SwingIdle

\* check_take_profit up to its loop: coll.find({"status": "HOLD"})
CheckTakeProfit ==
    /\ trade_pc = "idle"
    /\ \E found \in {SelectSeq(List([i \in 1..Len(orders) |-> i]), LAMBDA i : orders[i].status = "HOLD")} :
           /\ pending' = found
           /\ trade_pc' = IF found = <<>> THEN "idle" ELSE "check"
    /\ UNCHANGED <<clock, tweet_history, telegram, buys, orders, sells, observed,
                   rankVars, normVars, ratioVars, taVars, swingVars>>

\* one iteration of its loop; an exception ends the function
CheckOrder ==
    /\ trade_pc = "check"
    /\ \E env \in OrderEnvs : \E id \in {Head(pending)} :
       \E done \in {CheckedOrder(orders[id], env)} :
           /\ observed' = [order |-> id, token_info |-> env.token_info]
           /\ orders' = IF done.trade_result # NoTransaction
                         THEN [orders EXCEPT ![id].status = "CLOSED"]
                         ELSE orders
           /\ sells' = IF done.trade_result # NoTransaction THEN Append(sells, id) ELSE sells
           /\ pending' = IF done.raised # NoError THEN <<>> ELSE Tail(pending)
           /\ trade_pc' = IF done.raised # NoError \/ Tail(pending) = <<>> THEN "idle" ELSE "check"
    /\ UNCHANGED <<clock, tweet_history, telegram, buys,
                   rankVars, normVars, ratioVars, taVars, swingVars>>

NextOrders == CheckTakeProfit \/ CheckOrder

SpecOrders == InitOrders /\ [][NextOrders]_vars

\* ================================================================ claims
\* the result of the call is in: get_top_agents returned
Returned == rank_pc = "returned"

\* the market-cap test as the specification words it: marketCap > 100000,
\* an absent marketCap counting as 0
Survives(agent) ==
    "marketCap" \in DOMAIN agent /\ agent["marketCap"][1] > 100000 * agent["marketCap"][2]

Survivors == SelectSeq(all_agents, Survives)

Names(agents) == {agents[i]["agentName"] : i \in 1..Len(agents)}

\* C1: the list get_top_agents returns is sorted by non-increasing
\* finalScore: each returned agent's finalScore is >= the next one's.
C1_SortedByFinalScore ==
    Returned =>
        \A i \in 1..(Len(top_agents) - 1) :
            RatGe(top_agents[i]["finalScore"], top_agents[i + 1]["finalScore"])

\* a call that had to reorder: the best agent was fetched after the second best
C1_Witness ==
    /\ Returned
    /\ Len(top_agents) >= 2
    /\ RatGt(top_agents[1]["finalScore"], top_agents[2]["finalScore"])
    /\ top_agents[1]["agentName"] > top_agents[2]["agentName"]

\* C2: agents with marketCap <= 100000 or without marketCap are dropped
\* before scoring: none is returned, none gets a derived field, and none
\* contributes to an average or a normalisation vector (whenever an agent
\* was dropped, the survivors' fields are those that scoring the survivors
\* alone gives); every returned agent has marketCap > 100000 and all
\* derived fields.
C2_FilterFrame ==
    Returned =>
        /\ \A i \in 1..Len(all_agents) :
              ~Survives(all_agents[i]) =>
                  /\ DOMAIN all_agents[i] \cap DerivedFields = {}
                  /\ i \notin Names(top_agents)
        /\ \A i \in 1..Len(top_agents) :
              /\ Survives(top_agents[i])
              /\ DerivedFields \subseteq DOMAIN top_agents[i]
        /\ \A survivors \in {Survivors} :
           \A inputs \in {List([i \in 1..Len(survivors) |->
                   [f \in DOMAIN survivors[i] \ DerivedFields |-> survivors[i][f]]])} :
              Len(survivors) < Len(all_agents) =>
                  survivors = normalize_agent_scores(
                                  compute_raw_scores(inputs, compute_average_ratios(inputs)))

\* a call on two survivors with a mindshare ratio and an agent on the
\* threshold whose mindshare would have entered the average
C2_Witness ==
    /\ Returned
    /\ Len(top_agents) >= 2
    /\ RatGt(top_agents[2]["ms_ratio_score"], Zero)
    /\ \E i \in 1..Len(all_agents) :
          /\ "marketCap" \in DOMAIN all_agents[i]
          /\ all_agents[i]["marketCap"] = R(100000)
          /\ RatGt(all_agents[i]["mindshare"], Zero)

\* C3: for k >= 0 and n surviving agents the call returns exactly min(k, n)
\* agents, each a different survivor, and no survivor left out has a
\* finalScore strictly greater than a returned agent's.
C3_TopK ==
    Returned =>
        \A survivors \in {Survivors} :
            /\ Len(top_agents) = Min2(top_k, Len(survivors))
            /\ Cardinality(Names(top_agents)) = Len(top_agents)
            /\ \A i \in 1..Len(top_agents) :
                  top_agents[i] = all_agents[top_agents[i]["agentName"]]
            /\ \A i \in 1..Len(top_agents) : \A j \in 1..Len(survivors) :
                  survivors[j]["agentName"] \notin Names(top_agents) =>
                      RatLe(survivors[j]["finalScore"], top_agents[i]["finalScore"])

\* a call that cut the ranking: 0 < k < n, and a left-out agent scores less
C3_Witness ==
    /\ Returned
    /\ top_k > 0
    /\ top_k < Len(Survivors)
    /\ Len(top_agents) = top_k
    /\ \E j \in 1..Len(Survivors) :
          /\ Survivors[j]["agentName"] \notin Names(top_agents)
          /\ RatLt(Survivors[j]["finalScore"], top_agents[top_k]["finalScore"])

\* C4: when the population is empty, or the filter removes every agent, the
\* call returns the empty list and does not raise, for any k.
C4_EmptyPopulation ==
    (rank_pc # "idle" /\ Survivors = <<>>) => (Returned /\ top_agents = <<>>)

\* a call with k > 0 on a list of agents that are all filtered out
C4_Witness ==
    /\ Returned
    /\ top_k > 0
    /\ Len(all_agents) >= 2
    /\ Survivors = <<>>
    /\ top_agents = <<>>

\* C5: the tie-break is stable: two returned agents with equal finalScore
\* appear in the order in which they were in the input list.
C5_StableTieBreak ==
    Returned =>
        \A i \in 1..Len(top_agents) : \A j \in 1..Len(top_agents) :
            (i < j /\ top_agents[i]["finalScore"] = top_agents[j]["finalScore"]) =>
                top_agents[i]["agentName"] < top_agents[j]["agentName"]

\* a call that returned two agents of equal finalScore and moved them in
\* front of an agent of smaller finalScore that was fetched before them
C5_Witness ==
    /\ Returned
    /\ Len(top_agents) = 2
    /\ top_agents[1]["finalScore"] = top_agents[2]["finalScore"]
    /\ top_agents[1]["agentName"] < top_agents[2]["agentName"]
    /\ \E i \in 1..Len(all_agents) :
          /\ Survives(all_agents[i])
          /\ i < top_agents[1]["agentName"]
          /\ RatLt(all_agents[i]["finalScore"], top_agents[1]["finalScore"])

NormFields ==
    {"norm_mindshareDeltaPercent", "norm_volume24HoursDeltaPercent",
     "norm_ms_ratio_score", "norm_sf_ratio_score", "norm_hc_ratio_score"}

\* C6: when exactly one agent survives the filter, the call does not raise
\* and that agent's five norm_* components and its finalScore are all 0.
C6_SingleSurvivor ==
    (rank_pc # "idle" /\ Len(Survivors) = 1) =>
        /\ Returned
        /\ \A f \in NormFields : Survivors[1][f] = Zero
        /\ Survivors[1]["finalScore"] = Zero

\* a call with one survivor whose three ratio scores are defined (equal to
\* 1) and whose deltas are not 0, fetched together with dropped agents
C6_Witness ==
    /\ Returned
    /\ Len(all_agents) >= 2
    /\ Len(Survivors) = 1
    /\ top_agents = Survivors
    /\ Survivors[1]["ms_ratio_score"] = One
    /\ Survivors[1]["sf_ratio_score"] = One
    /\ Survivors[1]["hc_ratio_score"] = One
    /\ Survivors[1]["score_delta"] # Zero
    /\ Survivors[1]["finalScore"] = Zero

MetricKeys == {"mindshare", "smartFollowersCount", "holdersCount"}

ScoreField(metric_key) ==
    CASE metric_key = "mindshare" -> "ms_ratio_score"
      [] metric_key = "smartFollowersCount" -> "sf_ratio_score"
      [] metric_key = "holdersCount" -> "hc_ratio_score"

\* the metric is absent from the record, zero or negative
NoMetric(agent, metric_key) == metric_key \notin DOMAIN agent \/ agent[metric_key][1] <= 0

\* C7: the ranking is total: with every field absent or a number (zero and
\* negative included) the call never raises, and a metric that is absent or
\* <= 0 in every surviving agent gives ratio scores of 0, not an error.
C7_TotalFunction ==
    /\ rank_pc # "raised"
    /\ Returned =>
          \A survivors \in {Survivors} : \A m \in MetricKeys :
              (\A i \in 1..Len(survivors) : NoMetric(survivors[i], m)) =>
                  \A i \in 1..Len(survivors) : survivors[i][ScoreField(m)] = Zero

\* a call on at least two survivors none of which has a positive
\* holdersCount: one has it absent, one has it negative
C7_Witness ==
    /\ Returned
    /\ Len(top_agents) >= 2
    /\ \A i \in 1..Len(top_agents) : NoMetric(top_agents[i], "holdersCount")
    /\ \E i \in 1..Len(top_agents) : "holdersCount" \notin DOMAIN top_agents[i]
    /\ \E i \in 1..Len(top_agents) :
          /\ "holdersCount" \in DOMAIN top_agents[i]
          /\ top_agents[i]["holdersCount"][1] < 0
    /\ \E i \in 1..Len(top_agents) : "mindshareDeltaPercent" \notin DOMAIN top_agents[i]
    /\ \A i \in 1..Len(top_agents) : top_agents[i]["hc_ratio_score"] = Zero

\* --------------------------------------------- claims on the normalisers
RobustReturned == norm_pc = "robust_normalize"
LogRobustReturned == norm_pc = "log_robust_normalize"

InUnitInterval(x) == x # NaN /\ x[2] > 0 /\ 0 <= x[1] /\ x[1] <= x[2]

PopulationSet == {norm_population[i] : i \in 1..Len(norm_population)}

C9_DegeneratePopulation ==
    (/\ RobustReturned
     /\ norm_population # <<>>
     /\ \/ Cardinality(PopulationSet) = 1
        \/ Percentile99(norm_population) = ArrMin(norm_population))
        => norm_result = Zero

\* a population of several equal elements and a value different from them
C9_Witness ==
    /\ RobustReturned
    /\ Len(norm_population) >= 2
    /\ Cardinality(PopulationSet) = 1
    /\ norm_value \notin PopulationSet
    /\ norm_result = Zero

\* C10: log_robust_normalize returns 0 for every value, positive, zero or
\* negative, when no element of the population is positive; the empty
\* population included.
C10_NoPositiveElement ==
    (LogRobustReturned /\ \A v \in PopulationSet : v[1] <= 0) => norm_result = Zero

\* a positive value normalised against a population of a zero and a negative
C10_Witness ==
    /\ LogRobustReturned
    /\ norm_value[1] > 0
    /\ Cardinality(PopulationSet) >= 2
    /\ \A v \in PopulationSet : v[1] <= 0
    /\ norm_result = Zero

\* --------------------------------------- claims on the ratio functions
SafeRatioReturned == ratio_pc = "safe_ratio"
RatioScoreReturned == ratio_pc = "compute_ratio_score"

\* C11: safe_ratio returns None whenever the record has no value under the
\* metric key or a value <= 0; otherwise it returns marketCap / value, an
\* absent marketCap being read as 0; it never divides by zero.
C11_SafeRatio ==
    SafeRatioReturned =>
        /\ ratio_result # NaN
        /\ IF \/ ratio_metric_key \notin DOMAIN ratio_agent
              \/ ratio_agent[ratio_metric_key][1] <= 0
           THEN ratio_result = None
           ELSE ratio_result =
                    RatDiv(IF "marketCap" \in DOMAIN ratio_agent
                           THEN ratio_agent["marketCap"] ELSE Zero,
                           ratio_agent[ratio_metric_key])

\* a record with a positive metric and no marketCap: the ratio is 0
C11_Witness ==
    /\ SafeRatioReturned
    /\ ratio_metric_key \in DOMAIN ratio_agent
    /\ ratio_agent[ratio_metric_key][1] > 0
    /\ "marketCap" \notin DOMAIN ratio_agent
    /\ ratio_result = Zero

\* C12: compute_ratio_score returns None unless avg_ratio is defined and
\* strictly positive, agent_metric > 0 and market_cap > 0; otherwise it
\* returns avg_ratio / (market_cap / agent_metric), which is strictly
\* positive.  A negative or zero avg_ratio yields None.
C12_PositiveAverageOnly ==
    RatioScoreReturned =>
        IF /\ ratio_avg # None
           /\ RatGt(ratio_avg, Zero)
           /\ RatGt(ratio_metric, Zero)
           /\ RatGt(ratio_cap, Zero)
        THEN /\ ratio_result = RatDiv(ratio_avg, RatDiv(ratio_cap, ratio_metric))
             /\ RatGt(ratio_result, Zero)
        ELSE ratio_result = None

\* ----------------------------------------- claims on the signal engine
\* a call of either engine is over
TaDone == ta_pc # "idle"

\* the call returned a report
IsReport == TaDone /\ "recommendation" \in DOMAIN ta_result

\* C13: with fewer than 200 4-hour candles or fewer than 26 1-hour candles
\* the call fails: an exception leaves it for the caller and nothing is
\* returned, no report and no part of one.
C13_InsufficientDataRaises ==
    (TaDone /\ (ta_fourh_len < 200 \/ ta_oneh_len < 26)) =>
        /\ ta_raised # None
        /\ ta_result = None

\* C14: in every report overall_score is the sum of the trend's +1 (50-bar
\* average strictly above the 200-bar average) or -1, the RSI's +1 (below
\* 30), -1 (above 70) or 0, and the histogram's +1 (above 0) or -1; it is
\* an integer from -3 to 3.
C14_OverallScore ==
    IsReport =>
        LET fast == ta_trace.sma_vals.sma50_4h
            slow == ta_trace.sma_vals.sma200_4h
            trend == IF fast[1] * slow[2] > slow[1] * fast[2] THEN 1 ELSE -1
            rsi == IF ta_rsi[1] < 30 * ta_rsi[2] THEN 1
                   ELSE IF ta_rsi[1] > 70 * ta_rsi[2] THEN -1 ELSE 0
            macd == IF ta_macd_hist[1] > 0 THEN 1 ELSE -1
        IN /\ ta_result.overall_score = trend + rsi + macd
           /\ ta_result.overall_score \in -3..3

\* equal averages, an RSI of exactly 30 and a histogram of exactly 0: -2
C14_Witness ==
    /\ IsReport
    /\ ta_trace.sma_vals.sma50_4h = ta_trace.sma_vals.sma200_4h
    /\ ta_rsi = R(30)
    /\ ta_macd_hist = Zero
    /\ ta_result.overall_score = -2

\* C15: the recommendation derived from the score is LONG exactly for a
\* score >= 2, SHORT exactly for a score <= -2 and NO_ACTION exactly for
\* -1..1; in every report LONG implies a score >= 2 and SHORT a score <= -2.
C15_Recommendation ==
    IsReport =>
        /\ (ta_trace.recommendation = "LONG") = (ta_result.overall_score >= 2)
        /\ (ta_trace.recommendation = "SHORT") = (ta_result.overall_score <= -2)
        /\ (ta_trace.recommendation = "NO_ACTION") = (ta_result.overall_score \in -1..1)
        /\ ta_result.recommendation = "LONG" => ta_result.overall_score >= 2
        /\ ta_result.recommendation = "SHORT" => ta_result.overall_score <= -2

\* a report that says LONG with a score of exactly 2
C15_Witness ==
    /\ IsReport
    /\ ta_result.overall_score = 2
    /\ ta_trace.recommendation = "LONG"
    /\ ta_result.recommendation = "LONG"

\* C16: in every report whose recommendation is NO_ACTION the suggested
\* trade's entry, stop_loss and take_profit are all null.
C16_NoActionNoTrade ==
    (IsReport /\ ta_result.recommendation = "NO_ACTION") =>
        /\ ta_result.suggested_trade.entry = None
        /\ ta_result.suggested_trade.stop_loss = None
        /\ ta_result.suggested_trade.take_profit = None

\* C17: when the swing scan finds no local high and no local low, the
\* report's recommendation is NO_ACTION whatever the score.
C17_NoSwingsNoAction ==
    (IsReport /\ ta_trace.local_highs = <<>> /\ ta_trace.local_lows = <<>>) =>
        ta_result.recommendation = "NO_ACTION"

\* the resistances and supports as the specification words them: the two
\* highest local highs and the two lowest local lows, a missing one being
\* the highest high / the lowest low of the last lookback bars
WindowHigh == WindowMax(Highs(FourhSeries(ta_fourh_len, ta_fourh_tail)), ta_lookback)
WindowLow == WindowMin(Lows(FourhSeries(ta_fourh_len, ta_fourh_tail)), ta_lookback)

ClaimedLevels ==
    [r1 |-> IF Len(ta_trace.local_highs) >= 1 THEN ta_trace.local_highs[1] ELSE WindowHigh,
     r2 |-> IF Len(ta_trace.local_highs) >= 2 THEN ta_trace.local_highs[2] ELSE WindowHigh,
     s1 |-> IF Len(ta_trace.local_lows) >= 1 THEN ta_trace.local_lows[1] ELSE WindowLow,
     s2 |-> IF Len(ta_trace.local_lows) >= 2 THEN ta_trace.local_lows[2] ELSE WindowLow]

\* C18: whenever trade levels are computed, a resistance that was not found
\* is the highest high of the last lookback bars and a support that was not
\* found is the lowest low of the last lookback bars; no other placeholder
\* stands for a missing level.
C18_FallbackToWindowExtremes ==
    (IsReport /\ ta_trace.levels # None) => ta_trace.levels = ClaimedLevels

\* C19: the trade of a LONG report, before rounding: entry = s1; stop_loss
\* = s2 * 0.98, or entry * 0.98 when no second support was found;
\* take_profit = r1 if r1 > entry, else r2, or entry * 1.02 when no
\* resistance was found.
C19_LongTrade ==
    (IsReport /\ ta_result.recommendation = "LONG") =>
        \A lv \in {ClaimedLevels} : \A trade \in {ta_trace.suggested_trade} :
            /\ trade.entry = lv.s1
            /\ \/ trade.stop_loss = RatMul(lv.s2, Norm(98, 100))
               \/ /\ Len(ta_trace.local_lows) < 2
                  /\ trade.stop_loss = RatMul(trade.entry, Norm(98, 100))
            /\ \/ trade.take_profit = IF RatGt(lv.r1, trade.entry) THEN lv.r1 ELSE lv.r2
               \/ /\ ta_trace.local_highs = <<>>
                  /\ trade.take_profit = RatMul(trade.entry, Norm(102, 100))

\* C20: the trade of a SHORT report, before rounding: entry = r1; stop_loss
\* = r2 * 1.02, or entry * 1.02 when no second resistance was found;
\* take_profit = s1 if s1 < entry, else s2, or entry * 0.98 when no
\* support was found.
C20_ShortTrade ==
    (IsReport /\ ta_result.recommendation = "SHORT") =>
        \A lv \in {ClaimedLevels} : \A trade \in {ta_trace.suggested_trade} :
            /\ trade.entry = lv.r1
            /\ \/ trade.stop_loss = RatMul(lv.r2, Norm(102, 100))
               \/ /\ Len(ta_trace.local_highs) < 2
                  /\ trade.stop_loss = RatMul(trade.entry, Norm(102, 100))
            /\ \/ trade.take_profit = IF RatLt(lv.s1, trade.entry) THEN lv.s1 ELSE lv.s2
               \/ /\ ta_trace.local_lows = <<>>
                  /\ trade.take_profit = RatMul(trade.entry, Norm(98, 100))

\* C21: with at least 200 4-hour candles whose 50-bar average is strictly
\* above the 200-bar average, and at least 26 1-hour candles with an RSI
\* below 30 and a positive histogram, the call returns a report that says
\* LONG with overall_score 3 and an entry, a stop_loss and a take_profit
\* that are not null, whatever the highs and lows of the 4-hour series
\* (also when the window holds no swing high or no swing low).
C21_BullishLong ==
    (TaDone /\ ta_fourh_len >= 200 /\ ta_oneh_len >= 26) =>
        /\ IsReport
        /\ \A fast \in {ta_trace.sma_vals.sma50_4h} : \A slow \in {ta_trace.sma_vals.sma200_4h} :
              (/\ fast[1] * slow[2] > slow[1] * fast[2]
               /\ ta_rsi[1] < 30 * ta_rsi[2]
               /\ ta_macd_hist[1] > 0) =>
                  /\ ta_result.recommendation = "LONG"
                  /\ ta_result.overall_score = 3
                  /\ ta_result.suggested_trade.entry # None
                  /\ ta_result.suggested_trade.stop_loss # None
                  /\ ta_result.suggested_trade.take_profit # None

\* ------------------------------------------- claims on the swing scan
SwingReturned == swing_pc # "idle"

IsSwingHigh(i) ==
    /\ swing_bars[i].high[1] > swing_bars[i - 1].high[1]
    /\ swing_bars[i].high[1] > swing_bars[i + 1].high[1]

IsSwingLow(i) ==
    /\ swing_bars[i].low[1] < swing_bars[i - 1].low[1]
    /\ swing_bars[i].low[1] < swing_bars[i + 1].low[1]

\* the number of elements of the list s that equal v
Occurrences(s, v) == Cardinality({k \in 1..Len(s) : s[k] = v})

\* the scan returned exactly the highs of the swing highs among the bars in
\* positions, in descending order, and the lows of the swing lows among
\* them, in ascending order
FoundExactly(positions) ==
    /\ \A k \in 1..(Len(swing_found[1]) - 1) : swing_found[1][k][1] >= swing_found[1][k + 1][1]
    /\ \A k \in 1..(Len(swing_found[2]) - 1) : swing_found[2][k][1] <= swing_found[2][k + 1][1]
    /\ \A b \in SwingBarPool :
          /\ Occurrences(swing_found[1], b.high) =
                Cardinality({i \in positions : IsSwingHigh(i) /\ swing_bars[i].high = b.high})
          /\ Occurrences(swing_found[2], b.low) =
                Cardinality({i \in positions : IsSwingLow(i) /\ swing_bars[i].low = b.low})
    /\ Len(swing_found[1]) = Cardinality({i \in positions : IsSwingHigh(i)})
    /\ Len(swing_found[2]) = Cardinality({i \in positions : IsSwingLow(i)})

\* the last w of n bars without the first and the last of them, as 1-based
\* positions (the indices n-w+1 .. n-2 for n > w, 1 .. n-2 otherwise)
WindowInterior(n, w) == (IF n > w THEN n - w + 2 ELSE 2)..(n - 1)

\* the last w of n bars without the last of them, and without the first bar
\* of the series (the indices n-w .. n-2 for n > w, 1 .. n-2 otherwise)
WindowButLast(n, w) == (IF n > w THEN n - w + 1 ELSE 2)..(n - 1)

\* C22 as claimed: the scan of n bars with lookback w returns exactly the
\* highs of the bars strictly above both neighbours, sorted descending, and
\* the lows of the bars strictly below both neighbours, sorted ascending,
\* among the last w bars without the first and the last bar of that window
\* (indices n-w+1 .. n-2 when n > w).
C22_SwingsInsideWindow ==
    SwingReturned => FoundExactly(WindowInterior(Len(swing_bars), swing_window))

\* C22, amended: the same, among the last w bars without the last one: the
\* first bar of the window is scanned too, against the bar before the window
\* (indices n-w .. n-2 when n > w); when the window covers the whole series
\* the first bar of the series is left out (indices 1 .. n-2).
C22_SwingsButLastBar ==
    SwingReturned => FoundExactly(WindowButLast(Len(swing_bars), swing_window))

\* highs 1, 5, 2, 8, 3 and lows 1, 0, 2, -1, 3 scanned with a window of 4:
\* the bars of index 1, 2 and 3 are scanned, and the first bar of the
\* window, of index 1, is found as a swing high (5) and a swing low (0)
C22_Witness ==
    /\ SwingReturned
    /\ Highs(swing_bars) = <<R(1), R(5), R(2), R(8), R(3)>>
    /\ Lows(swing_bars) = <<R(1), R(0), R(2), R(-1), R(3)>>
    /\ swing_window = 4
    /\ swing_found = << <<R(8), R(5)>>, <<R(-1), R(0)>> >>

\* --------------------------------------- claims on the trade levels
\* an engine reported a recommendation and a trade for the swings found
TradeReported == swing_pc \in {"analysis", "toolkit"}

\* every high and every low of the bars is positive
PositivePrices ==
    \A i \in 1..Len(swing_bars) : swing_bars[i].high[1] > 0 /\ swing_bars[i].low[1] > 0

\* a < b < c for three reported levels, none of them null
Ordered(a, b, c) ==
    /\ a # None /\ b # None /\ c # None
    /\ a[1] * b[2] < b[1] * a[2]
    /\ b[1] * c[2] < c[1] * b[2]

\* C25: every LONG trade reported from positive prices has
\* stop_loss < entry < take_profit, whatever swing lows s1 <= s2 and swing
\* highs r1 >= r2 were found.
C25_LongLevelsOrdered ==
    (TradeReported /\ PositivePrices /\ swing_report.recommendation = "LONG") =>
        Ordered(swing_report.suggested_trade.stop_loss,
                swing_report.suggested_trade.entry,
                swing_report.suggested_trade.take_profit)

\* C26: every SHORT trade reported from positive prices has
\* take_profit < entry < stop_loss, whatever swing highs r1 >= r2 and swing
\* lows s1 <= s2 were found.
C26_ShortLevelsOrdered ==
    (TradeReported /\ PositivePrices /\ swing_report.recommendation = "SHORT") =>
        Ordered(swing_report.suggested_trade.take_profit,
                swing_report.suggested_trade.entry,
                swing_report.suggested_trade.stop_loss)

\* ------------------------------------- claims on the normalised scores
RatioScoreFields == {"ms_ratio_score", "sf_ratio_score", "hc_ratio_score"}

NormOf(score_field) ==
    CASE score_field = "ms_ratio_score" -> "norm_ms_ratio_score"
      [] score_field = "sf_ratio_score" -> "norm_sf_ratio_score"
      [] score_field = "hc_ratio_score" -> "norm_hc_ratio_score"

\* the largest finalScore: (1 + 0.3 + 1 + 0.5 + 0.2 + 0.2) / 3
MaxFinalScore == Norm(32, 30)

\* C27: after a ranking pass every scored agent has each of its five norm_*
\* components in [0, 1] and its finalScore in [0, 3.2/3]; also the agents
\* whose ratio scores are undefined (stored as 0) and the agents with
\* negative delta percentages.
C27_ScoresInRange ==
    Returned =>
        \A survivors \in {Survivors} : \A i \in 1..Len(survivors) :
            /\ \A f \in NormFields : InUnitInterval(survivors[i][f])
            /\ survivors[i]["finalScore"] # NaN
            /\ survivors[i]["finalScore"][1] >= 0
            /\ survivors[i]["finalScore"][1] * MaxFinalScore[2]
                   <= MaxFinalScore[1] * survivors[i]["finalScore"][2]

\* a pass over three agents: one has no mindshare ratio score and a
\* normalised one strictly between 0 and 1, one has a negative delta, and
\* one has a normalised component equal to 1
C27_Witness ==
    /\ Returned
    /\ Len(Survivors) = 3
    /\ \E i \in 1..3 :
          /\ Survivors[i]["ms_ratio_score"] = Zero
          /\ Survivors[i]["norm_ms_ratio_score"][1] > 0
          /\ Survivors[i]["norm_ms_ratio_score"][1] < Survivors[i]["norm_ms_ratio_score"][2]
    /\ \E i \in 1..3 :
          /\ "mindshareDeltaPercent" \in DOMAIN Survivors[i]
          /\ Survivors[i]["mindshareDeltaPercent"][1] < 0
    /\ \E i \in 1..3 : \E f \in NormFields : Survivors[i][f] = One

\* C28: within one batch and for each of the three ratio metrics, an agent
\* whose ratio score is undefined (stored as 0) never gets a larger
\* normalised ratio component than an agent whose ratio score is defined
\* and positive.
C28_UndefinedNeverAboveDefined ==
    Returned =>
        \A survivors \in {Survivors} : \A f \in RatioScoreFields :
        \A i \in 1..Len(survivors) : \A j \in 1..Len(survivors) :
            (survivors[i][f] = Zero /\ survivors[j][f][1] > 0) =>
                RatLe(survivors[i][NormOf(f)], survivors[j][NormOf(f)])

\* --------------------------------- claims on the two copies of the engine
\* two reported levels are the same up to rounding to 2 decimals
SameLevel(a, b) ==
    IF a = None \/ b = None THEN a = b ELSE Round2(a) = Round2(b)

\* two results say the same: the same error, or reports with the same
\* recommendation, the same overall_score and the same trade up to rounding
SameSignal(x, y) ==
    IF "recommendation" \in DOMAIN x /\ "recommendation" \in DOMAIN y
    THEN /\ x.recommendation = y.recommendation
         /\ x.overall_score = y.overall_score
         /\ SameLevel(x.suggested_trade.entry, y.suggested_trade.entry)
         /\ SameLevel(x.suggested_trade.stop_loss, y.suggested_trade.stop_loss)
         /\ SameLevel(x.suggested_trade.take_profit, y.suggested_trade.take_profit)
    ELSE x = y

\* C29: the two copies of the engine are equivalent: on the same two
\* series and the same lookback TechnicalAnalysis.comprehensive_ta_analysis
\* and TechnicalAnalysisToolkit.comprehensive_ta_analysis return the same
\* recommendation, the same overall_score and, up to rounding to 2
\* decimals, the same entry, stop_loss and take_profit, also when fewer than
\* two swing highs or fewer than two swing lows are found.
C29_CopiesEquivalent ==
    ta_pc = "analysis" =>
        \A other \in {toolkit_comprehensive_ta_analysis(
                          FourhSeries(ta_fourh_len, ta_fourh_tail), ta_oneh_len,
                          ta_rsi, ta_macd_hist, ta_lookback)} :
            SameSignal(ta_result, other.result)

\* ------------------------------------------ claims on run_trade_pipeline
\* two tweets recorded for one contract address are more than RecentHours
\* apart
TweetsApart ==
    \A i, j \in 1..Len(tweet_history) :
        (i < j /\ tweet_history[i].contractAddress = tweet_history[j].contractAddress)
            => tweet_history[j].tweetedAt - tweet_history[i].tweetedAt > RecentHours

\* every tweet that was sent had been recorded
SentWereRecorded ==
    \A i \in 1..Len(telegram) : \E j \in 1..Len(tweet_history) : tweet_history[j] = telegram[i]

\* a step that records a tweet is an iteration of the loop for an agent
\* that has the tweet's contract address on chain -2, no tweet of that
\* address is on record from the last RecentHours, and the recommendation
\* tweeted is LONG or SHORT
RecordsOnlyWhenDue ==
    tweet_history' # tweet_history =>
        /\ trade_pc = "pipeline"
        /\ Len(tweet_history') = Len(tweet_history) + 1
        /\ SubSeq(tweet_history', 1, Len(tweet_history)) = tweet_history
        /\ \A tweet \in {tweet_history'[Len(tweet_history')]} : \A agent \in {Head(pending)} :
               /\ "contracts" \in DOMAIN agent
               /\ \E i \in 1..Len(agent.contracts) :
                      /\ agent.contracts[i].chain = SolanaChain
                      /\ agent.contracts[i].contractAddress = tweet.contractAddress
               /\ \A i \in 1..Len(tweet_history) :
                      tweet_history[i].contractAddress = tweet.contractAddress
                          => tweet_history[i].tweetedAt < clock - RecentHours
               /\ tweet.tweetedAt = clock
               /\ tweet.tweetText \in {"LONG", "SHORT"}

\* a step that sends a tweet sends the tweet it has just recorded
SendsWhatItRecorded ==
    telegram' # telegram =>
        /\ tweet_history' # tweet_history
        /\ telegram' = Append(telegram, tweet_history'[Len(tweet_history')])

\* C23: across any sequence of runs of run_trade_pipeline a tweet is
\* recorded and sent for an agent only if the agent has a contract with
\* chain == -2, no tweet of that contract address was recorded within the
\* preceding 6 hours and the recommendation is LONG or SHORT; the tweet is
\* recorded before it is sent, so the same contract address is never
\* tweeted twice within 6 hours, also when two agents of one run share it.
C23_TweetedOnlyWhenDue ==
    /\ [](TweetsApart /\ SentWereRecorded)
    /\ [][RecordsOnlyWhenDue /\ SendsWhatItRecorded]_vars

\* C23 witness: the contract A was tweeted at hour 0 and again, recorded
\* and sent, in the run in progress at hour 12, whose next agent a2 shares
\* the contract A; a tweet of B that was recorded was never sent
C23_Witness ==
    /\ trade_pc = "pipeline"
    /\ clock = 12
    /\ Head(pending).agentName = "a2"
    /\ \E i, j, k \in 1..Len(tweet_history) :
           /\ tweet_history[i].contractAddress = "A" /\ tweet_history[i].tweetedAt = 0
           /\ tweet_history[j].contractAddress = "A" /\ tweet_history[j].tweetedAt = 12
           /\ j = Len(tweet_history)
           /\ telegram # <<>> /\ telegram[Len(telegram)] = tweet_history[j]
           /\ tweet_history[k].contractAddress = "B"
           /\ \A m \in 1..Len(telegram) : telegram[m] # tweet_history[k]

====
